---- MODULE Spec2Model ----
(***************************************************************************)
(* Notes-to-email generator: the composer (utils/format.ts) and the        *)
(* generate route (app/api/generate/route.ts).                             *)
(*                                                                         *)
(* Strings are TLC strings: Len counts UTF-16 code units as JavaScript's   *)
(* .length does.  Two non-ASCII characters of the source are written with  *)
(* one ASCII character each, so that every length is kept:                 *)
(*   U+2014 (em dash) is written "~", U+2019 (right quote) is written "'". *)
(***************************************************************************)
EXTENDS Integers, Sequences, FiniteSets, TLC

VARIABLES
    env,        \* the runtime: default locale and time zone of the process
    call,       \* a direct call of composeEmail or subjectFrom: its arguments
    ret,        \* what that call returned
    hasKey,     \* route: !!process.env.OPENAI_API_KEY
    pc,         \* route: position of the POST handler
    req,        \* route: the request being handled
    remote,     \* route: the call to the remote extractor and its outcome
    resp,       \* route: the response POST returned
    reached,    \* route: which collaborators the current request reached
    form        \* form component: its state and the requests it has issued

vars == <<env, call, ret, hasKey, pc, req, remote, resp, reached, form>>

(***************************************************************************)
(* Bounds of the model.                                                    *)
(***************************************************************************)
MaxItems == 2       \* longest decisions / actions / questions sequence
MaxTitle == 72      \* longest run of letters in a subjectFrom title
MaxCalls == 2       \* calls of one function with the same arguments
MaxRequests == 2    \* requests the form issues to /api/generate in one run

(***************************************************************************)
(* JavaScript strings.                                                     *)
(***************************************************************************)
EmDash == "~"
Apos == "'"

Min(a, b) == IF a < b THEN a ELSE b

CharAt(s, i) == SubSeq(s, i, i)

\* what String.prototype.trim strips (the white space the inputs here use)
IsWS(c) == c \in {" ", "\t", "\n", "\r"}

RECURSIVE TrimStart(_)
TrimStart(s) ==
    IF Len(s) = 0 THEN s
    ELSE IF IsWS(CharAt(s, 1)) THEN TrimStart(SubSeq(s, 2, Len(s))) ELSE s

RECURSIVE TrimEnd(_)
TrimEnd(s) ==
    IF Len(s) = 0 THEN s
    ELSE IF IsWS(CharAt(s, Len(s))) THEN TrimEnd(SubSeq(s, 1, Len(s) - 1)) ELSE s

\* String.prototype.trim
Trim(s) == TrimEnd(TrimStart(s))

\* String.prototype.slice(0, n)
Slice0(s, n) == SubSeq(s, 1, Min(n, Len(s)))

\* Array.prototype.join
RECURSIVE Join(_, _)
Join(parts, sep) ==
    IF Len(parts) = 0 THEN ""
    ELSE IF Len(parts) = 1 THEN parts[1]
    ELSE LET h == Len(parts) \div 2
         IN  Join(SubSeq(parts, 1, h), sep) \o sep
             \o Join(SubSeq(parts, h + 1, Len(parts)), sep)

StartsWith(s, p) == Len(s) >= Len(p) /\ SubSeq(s, 1, Len(p)) = p

\* index of the first occurrence of the one-character string c in s, 0 if none
IndexOfChar(s, c) ==
    LET hits == {i \in 1..Len(s) : CharAt(s, i) = c}
    IN  IF hits = {} THEN 0 ELSE CHOOSE i \in hits : \A j \in hits : i <= j

\* the lines of a text: s.split("\n")
RECURSIVE Lines(_)
Lines(s) ==
    LET brk == {i \in 1..Len(s) : CharAt(s, i) = "\n"}
        late == {i \in brk : 2 * i >= Len(s)}
        p == IF late # {} THEN CHOOSE i \in late : \A j \in late : i <= j
             ELSE CHOOSE i \in brk : \A j \in brk : j <= i
    IN  IF brk = {} THEN <<s>>
        ELSE Lines(SubSeq(s, 1, p - 1)) \o Lines(SubSeq(s, p + 1, Len(s)))

HasLineBreak(s) == IndexOfChar(s, "\n") # 0

\* s.repeat(n)
RECURSIVE Repeat(_, _)
Repeat(s, n) == IF n = 0 THEN "" ELSE s \o Repeat(s, n - 1)

(***************************************************************************)
(* JavaScript values, as the route and the composer meet them at run time  *)
(* (TypeScript's types are erased; JSON.parse returns any).                *)
(***************************************************************************)
JUndef == [k |-> "undefined"]
JNull == [k |-> "null"]
JStr(s) == [k |-> "string", s |-> s]
JNum(n) == [k |-> "number", n |-> n]
JBool(b) == [k |-> "boolean", b |-> b]
JArr(a) == [k |-> "array", a |-> a]
JObj(f) == [k |-> "object", f |-> f]

IsNullish(v) == v.k \in {"undefined", "null"}

\* ToBoolean
Truthy(v) ==
    CASE v.k = "undefined" -> FALSE
      [] v.k = "null" -> FALSE
      [] v.k = "string" -> v.s # ""
      [] v.k = "number" -> v.n # 0
      [] v.k = "boolean" -> v.b
      [] OTHER -> TRUE

\* decimal digits of a natural number
RECURSIVE NatStr(_)
NatStr(n) ==
    IF n < 10 THEN CharAt("0123456789", n + 1)
    ELSE NatStr(n \div 10) \o CharAt("0123456789", (n % 10) + 1)

\* ToString, as a template literal applies it
RECURSIVE ToStr(_)
ToStr(v) ==
    CASE v.k = "undefined" -> "undefined"
      [] v.k = "null" -> "null"
      [] v.k = "string" -> v.s
      [] v.k = "number" -> IF v.n < 0 THEN "-" \o NatStr(0 - v.n) ELSE NatStr(v.n)
      [] v.k = "boolean" -> IF v.b THEN "true" ELSE "false"
      [] v.k = "array" ->
            Join([i \in 1..Len(v.a) |->
                    IF IsNullish(v.a[i]) THEN "" ELSE ToStr(v.a[i])], ",")
      [] OTHER -> "[object Object]"

\* v[key] for a value that is not null or undefined (those throw a TypeError)
Get(v, key) ==
    IF v.k = "object" /\ key \in DOMAIN v.f THEN v.f[key] ELSE JUndef

(***************************************************************************)
(* utils/format.ts                                                         *)
(***************************************************************************)
IsDigit(c) == IndexOfChar("0123456789", c) # 0
DigitVal(c) == IndexOfChar("0123456789", c) - 1

RECURSIVE NumVal(_)
NumVal(s) ==
    IF Len(s) = 0 THEN 0
    ELSE 10 * NumVal(SubSeq(s, 1, Len(s) - 1)) + DigitVal(CharAt(s, Len(s)))

IsLeap(y) == (y % 4 = 0 /\ y % 100 # 0) \/ y % 400 = 0

DaysIn(y, m) ==
    IF m = 2 THEN (IF IsLeap(y) THEN 29 ELSE 28)
    ELSE IF m \in {4, 6, 9, 11} THEN 30 ELSE 31

\* new Date(s): the date-only ISO form YYYY-MM-DD is midnight UTC of that
\* day; every other string of the inputs used here is an Invalid Date.
DateParse(s) ==
    IF /\ Len(s) = 10
       /\ CharAt(s, 5) = "-" /\ CharAt(s, 8) = "-"
       /\ \A i \in {1, 2, 3, 4, 6, 7, 9, 10} : IsDigit(CharAt(s, i))
    THEN LET y == NumVal(SubSeq(s, 1, 4))
             m == NumVal(SubSeq(s, 6, 7))
             d == NumVal(SubSeq(s, 9, 10))
         IN  IF m \in 1..12 /\ d \in 1..DaysIn(y, m)
             THEN [ok |-> TRUE, y |-> y, m |-> m, d |-> d]
             ELSE [ok |-> FALSE]
    ELSE [ok |-> FALSE]

MonthShort(m) ==
    <<"Jan", "Feb", "Mar", "Apr", "May", "Jun",
      "Jul", "Aug", "Sep", "Oct", "Nov", "Dec">>[m]

\* the calendar day before (y, m, d)
PrevDay(t) ==
    IF t.d > 1 THEN [t EXCEPT !.d = t.d - 1]
    ELSE IF t.m > 1 THEN [t EXCEPT !.m = t.m - 1, !.d = DaysIn(t.y, t.m - 1)]
    ELSE [t EXCEPT !.y = t.y - 1, !.m = 12, !.d = 31]

\* d.toLocaleDateString(undefined, {day: "numeric", month: "short",
\* year: "numeric"}): the process's default locale and time zone decide.
\* e.tz = "behind" is a zone west of UTC, where midnight UTC is the day before.
ToLocaleDateString(t, e) ==
    LET l == IF e.tz = "behind" THEN PrevDay(t) ELSE t
    IN  IF e.locale = "en-US"
        THEN MonthShort(l.m) \o " " \o NatStr(l.d) \o ", " \o NatStr(l.y)
        ELSE NatStr(l.d) \o " " \o MonthShort(l.m) \o " " \o NatStr(l.y)

\* mutant: a text that does not parse is shown as entered, not trimmed
formatWhen_NoTrim(dateStr, e) ==
    IF ~Truthy(dateStr) THEN JNull
    ELSE LET s == Trim(dateStr.s)
         IN  IF s = "" THEN JNull
             ELSE IF DateParse(s).ok
                  THEN JStr(ToLocaleDateString(DateParse(s), e))
                  ELSE JStr(dateStr.s)

\* formatWhen(dateStr): a string, or JNull
formatWhen(dateStr, e) ==
    IF ~Truthy(dateStr) THEN JNull
    ELSE LET s == Trim(dateStr.s)
         IN  IF s = "" THEN JNull
             ELSE IF DateParse(s).ok
                  THEN JStr(ToLocaleDateString(DateParse(s), e))
                  ELSE JStr(s)

\* opts.title?.trim() ?? dflt
TitleOr(title, dflt) == IF IsNullish(title) THEN dflt ELSE Trim(title.s)

introLine(opts, e) ==
    LET w == formatWhen(opts.date, e)
        when == IF IsNullish(w) THEN "today" ELSE w.s
    IN  CASE opts.tone = "formal" ->
                "The key takeaways from the \"" \o TitleOr(opts.title, "meeting")
                \o "\" session held on " \o when \o " are summarised below."
          [] opts.tone = "friendly" ->
                "Thanks for joining \"" \o TitleOr(opts.title, "our meeting")
                \o "\" on " \o when \o ". Here" \o Apos \o "s a clear recap and what"
                \o Apos \o "s next."
          [] opts.tone = "persuasive" ->
                "Following \"" \o TitleOr(opts.title, "the meeting")
                \o "\" on " \o when \o ", here" \o Apos
                \o "s where we landed and what we need to move forward."
          [] opts.tone = "casual" ->
                "Hey folks " \o EmDash \o " quick recap from \""
                \o TitleOr(opts.title, "today" \o Apos \o "s chat")
                \o "\" (" \o when \o ")."
          [] OTHER ->
                "Here" \o Apos \o "s a quick follow-up from \""
                \o TitleOr(opts.title, "the meeting") \o "\" (" \o when \o ")."

\* mutant: the switch has no default arm, an unlisted tone gives undefined
signoffFor_NoDefault(tone) ==
    CASE tone = "formal" -> "Best regards,"
      [] tone = "persuasive" -> "Thanks in advance,"
      [] tone = "casual" -> "Cheers,"
      [] tone = "friendly" -> "Thanks so much,"
      [] tone = "concise" -> "Thanks!"
      [] OTHER -> "undefined"

signoffFor(tone) ==
    CASE tone = "formal" -> "Best regards,"
      [] tone = "persuasive" -> "Thanks in advance,"
      [] tone = "casual" -> "Cheers,"
      [] tone = "friendly" -> "Thanks so much,"
      [] OTHER -> "Thanks!"

\* mutant: the greeting of an unlisted audience is that of a stakeholder
greetingFor_HelloDefault(audience) ==
    IF audience = "client" THEN "Hi team," ELSE "Hello,"

greetingFor(audience) ==
    IF audience = "client" THEN "Hi team,"
    ELSE IF audience = "stakeholder" THEN "Hello," ELSE "Hi all,"

\* mutant: the participants text is tested and shown without trimming
attendeesLine_NoTrim(participants) ==
    "Attendees: " \o (IF Truthy(participants) THEN participants.s ELSE EmDash)

\* the Attendees line
attendeesLine(participants) ==
    "Attendees: " \o
        (IF Truthy(participants) /\ Trim(participants.s) # ""
         THEN Trim(participants.s) ELSE EmDash)

\* opts.summary?.trim() throws a TypeError on a value that has no trim method
summaryThrows(opts) ==
    /\ opts.type # "action-only"
    /\ ~IsNullish(opts.summary)
    /\ opts.summary.k # "string"

\* mutant: the Summary section is emitted for a blank summary too
summarySection_NoBlankCheck(opts) ==
    IF opts.type # "action-only" /\ opts.summary.k = "string"
    THEN <<"Summary", Trim(opts.summary.s), "">>
    ELSE <<>>

summarySection(opts) ==
    IF /\ opts.type # "action-only"
       /\ opts.summary.k = "string"
       /\ Trim(opts.summary.s) # ""
    THEN <<"Summary", Trim(opts.summary.s), "">>
    ELSE <<>>

\* mutant: the Decisions heading is emitted for an empty list too
decisionsSection_NoLengthCheck(opts) ==
    IF opts.type # "action-only"
    THEN <<"Decisions">>
         \o [i \in 1..Len(opts.decisions) |-> "- " \o ToStr(opts.decisions[i])]
         \o <<"">>
    ELSE <<>>

decisionsSection(opts) ==
    IF opts.type # "action-only" /\ Len(opts.decisions) # 0
    THEN <<"Decisions">>
         \o [i \in 1..Len(opts.decisions) |-> "- " \o ToStr(opts.decisions[i])]
         \o <<"">>
    ELSE <<>>

\* a.due on a null or undefined element throws a TypeError
actionsThrow(opts) ==
    \E i \in 1..Len(opts.actions) : IsNullish(opts.actions[i])

\* mutant: the due suffix is written for an empty due too
actionLine_AlwaysDue(a) ==
    LET owner == IF Truthy(Get(a, "owner")) THEN ToStr(Get(a, "owner")) ELSE "TBD"
    IN  "- " \o owner \o " " \o EmDash \o " " \o ToStr(Get(a, "task"))
        \o " " \o EmDash \o " " \o ToStr(Get(a, "due"))

actionLine(a) ==
    LET due == IF Truthy(Get(a, "due"))
               THEN " " \o EmDash \o " " \o ToStr(Get(a, "due")) ELSE ""
        owner == IF Truthy(Get(a, "owner")) THEN ToStr(Get(a, "owner")) ELSE "TBD"
    IN  "- " \o owner \o " " \o EmDash \o " " \o ToStr(Get(a, "task")) \o due

actionsSection(opts) ==
    IF Len(opts.actions) # 0
    THEN <<"Action Items">>
         \o [i \in 1..Len(opts.actions) |-> actionLine(opts.actions[i])]
         \o <<"">>
    ELSE <<>>

\* mutant: the Open Questions section ignores the type
questionsSection_AnyType(opts) ==
    IF Len(opts.questions) # 0
    THEN <<"Open Questions">>
         \o [i \in 1..Len(opts.questions) |-> "- " \o ToStr(opts.questions[i])]
         \o <<"">>
    ELSE <<>>

questionsSection(opts) ==
    IF opts.type # "action-only" /\ Len(opts.questions) # 0
    THEN <<"Open Questions">>
         \o [i \in 1..Len(opts.questions) |-> "- " \o ToStr(opts.questions[i])]
         \o <<"">>
    ELSE <<>>

\* mutant: a blank line is pushed before the sign-off as well
composeEmail_BlankBeforeSignoff(opts, e) ==
    IF summaryThrows(opts) \/ actionsThrow(opts)
    THEN [threw |-> TRUE, body |-> ""]
    ELSE LET parts ==
                <<greetingFor(opts.audience), introLine(opts, e),
                  attendeesLine(opts.participants), "">>
                \o summarySection(opts)
                \o decisionsSection(opts)
                \o actionsSection(opts)
                \o questionsSection(opts)
                \o <<"", signoffFor(opts.tone) \o "\n{your name}">>
         IN  [threw |-> FALSE, body |-> Join(parts, "\n")]

\* composeEmail(opts): [threw |-> TRUE] when it throws, else the body
composeEmail(opts, e) ==
    IF summaryThrows(opts) \/ actionsThrow(opts)
    THEN [threw |-> TRUE, body |-> ""]
    ELSE LET parts ==
                <<greetingFor(opts.audience), introLine(opts, e),
                  attendeesLine(opts.participants), "">>
                \o summarySection(opts)
                \o decisionsSection(opts)
                \o actionsSection(opts)
                \o questionsSection(opts)
                \o <<signoffFor(opts.tone) \o "\n{your name}">>
         IN  [threw |-> FALSE, body |-> Join(parts, "\n")]

SubjectMax == 70

\* mutant: the subject is cut one character late
subjectFrom_CutLate(title, type) ==
    LET base == IF ~IsNullish(title) /\ Trim(title.s) # ""
                THEN Trim(title.s) ELSE "Meeting"
        suffix == IF type = "summary" THEN "summary"
                  ELSE IF type = "action-only" THEN "action items"
                  ELSE "follow-up"
        full == base \o " " \o EmDash \o " " \o suffix
    IN  IF Len(full) > SubjectMax + 1 THEN Slice0(full, SubjectMax + 1) ELSE full

subjectFrom(title, type) ==
    LET base == IF ~IsNullish(title) /\ Trim(title.s) # ""
                THEN Trim(title.s) ELSE "Meeting"
        suffix == IF type = "summary" THEN "summary"
                  ELSE IF type = "action-only" THEN "action items"
                  ELSE "follow-up"
        full == base \o " " \o EmDash \o " " \o suffix
    IN  IF Len(full) > SubjectMax THEN Slice0(full, SubjectMax) ELSE full

(***************************************************************************)
(* Inputs of the direct calls.                                             *)
(***************************************************************************)
Audiences == {"internal", "client", "stakeholder"}
Tones == {"concise", "formal", "friendly", "persuasive", "casual"}
Types == {"summary", "follow-up", "action-only"}

Envs == [locale : {"en-GB", "en-US"}, tz : {"ahead", "behind"}]
DefaultEnv == [locale |-> "en-GB", tz |-> "ahead"]

TitlePool ==
    {JUndef, JStr(""), JStr("  "), JStr(" Q3 Sync "), JStr("Q3\nSync")}
DatePool ==
    {JUndef, JStr(""), JStr("  "), JStr("2025-08-01"), JStr(" next Friday "),
     JStr("today")}
ParticipantsPool ==
    {JUndef, JStr(""), JStr(" \t"), JStr(" Ann, Bob "), JStr("Ann\nBob")}
SummaryPool ==
    {JStr(""), JStr(" \n "), JStr(" Ship in Q3. "),
     JStr("Attendees: Ann and Bob met"), JStr("Scope agreed.\nBudget open."),
     JStr("Decisions")}

DecisionItem(i) ==
    IF i = 1 THEN JStr("Keep the launch date")
    ELSE IF i = 2 THEN JStr("Budget approved")
    ELSE JStr("Decision " \o NatStr(i))

ActionItem(i) ==
    IF i = 1
    THEN JObj([owner |-> JStr("Anna"), task |-> JStr("draft client comms"),
               due |-> JStr("Fri")])
    ELSE IF i = 2
    THEN JObj([owner |-> JStr(""), task |-> JStr("review the terms"),
               due |-> JStr("")])
    ELSE JObj([owner |-> JStr("Team"), task |-> JStr("task " \o NatStr(i)),
               due |-> JStr("")])

QuestionItem(i) ==
    IF i = 1 THEN JStr("Need legal review?")
    ELSE IF i = 2 THEN JStr("Who owns rollout")
    ELSE JStr("Question " \o NatStr(i))

\* the empty sequence and every run items[a], ..., items[b]
Runs(items) ==
    {<<>>} \cup {SubSeq(items, a, b) : a \in 1..Len(items), b \in 1..Len(items)}

DecisionRuns == Runs([i \in 1..MaxItems |-> DecisionItem(i)])
ActionRuns == Runs([i \in 1..MaxItems |-> ActionItem(i)])
QuestionRuns == Runs([i \in 1..MaxItems |-> QuestionItem(i)])

EmptyEx == [summary |-> JStr(""), decisions |-> <<>>, actions |-> <<>>,
            questions |-> <<>>]
FullEx == [summary |-> JStr(" Ship in Q3. "),
           decisions |-> <<DecisionItem(1)>>,
           actions |-> <<ActionItem(1), ActionItem(2)>>,
           questions |-> <<QuestionItem(1)>>]

Opts(au, to, ty, ti, da, pa, ex) ==
    [audience |-> au, tone |-> to, type |-> ty, title |-> ti, date |-> da,
     participants |-> pa, summary |-> ex.summary, decisions |-> ex.decisions,
     actions |-> ex.actions, questions |-> ex.questions]

\* every audience, tone, type, title and date, around an empty and a full extraction
FrameCalls ==
    {Opts(au, to, ty, ti, da, JUndef, ex) :
        au \in Audiences, to \in Tones, ty \in Types, ti \in TitlePool,
        da \in DatePool, ex \in {EmptyEx, FullEx}}

\* every participants text against every title, summary and type
AttendeeCalls ==
    {Opts("internal", "concise", ty, ti, JUndef, pa,
          [ex EXCEPT !.summary = su]) :
        ty \in Types, ti \in TitlePool, pa \in ParticipantsPool,
        su \in SummaryPool, ex \in {EmptyEx, FullEx}}

\* every combination of empty and non-empty sections
SectionCalls ==
    {Opts("client", "formal", ty, JStr("Q3 Sync"), JStr("next Friday"),
          JStr("Ann"),
          [summary |-> su, decisions |-> de, actions |-> ac, questions |-> qu]) :
        ty \in Types, su \in SummaryPool, de \in DecisionRuns,
        ac \in ActionRuns, qu \in QuestionRuns}

\* the worked example: a client audience, a formal tone, a summary, the title
\* "Q3 Sync", the date 2025-08-01 and empty participants
ScenarioCalls ==
    {Opts("client", "formal", "summary", JStr("Q3 Sync"), JStr("2025-08-01"),
          JStr(""), ex) : ex \in {EmptyEx, FullEx}}

\* opts.audience, opts.tone or opts.type left unset: under === and switch it
\* equals none of the enumerated values
Unset == "(undefined)"

\* values outside the declared enumerations (the parameter types are erased
\* at run time; the route passes p.audience as any)
OutsideAudiences == {Unset, "everyone"}
OutsideTones == {Unset, "angry", "Formal"}
OutsideTypes == {Unset, "memo", "action_only"}

DefaultArmCalls ==
    {Opts(au, to, ty, ti, JStr("next Friday"), JStr("Ann"), ex) :
        au \in Audiences \cup OutsideAudiences, to \in Tones \cup OutsideTones,
        ty \in Types \cup OutsideTypes, ti \in {JUndef, JStr("Q3 Sync")},
        ex \in {EmptyEx, FullEx}}

\* action items as a remote extraction can hold them: a task of two lines,
\* an item without owner and due
TwoLineTask ==
    JObj([owner |-> JStr("Bob"), task |-> JStr("call the client\nthen report"),
          due |-> JStr("Mon")])
BareTask == JObj([task |-> JStr("book a room")])

LooseActionCalls ==
    {Opts("internal", "concise", ty, JStr("Q3 Sync"), JUndef, JUndef,
          [EmptyEx EXCEPT !.actions = ac]) :
        ty \in {"summary", "follow-up"},
        ac \in {<<ActionItem(1), TwoLineTask>>, <<BareTask, ActionItem(2)>>}}

ComposeCalls ==
    {[fn |-> "composeEmail", opts |-> o] :
        o \in FrameCalls \cup AttendeeCalls \cup SectionCalls
              \cup ScenarioCalls \cup DefaultArmCalls \cup LooseActionCalls}

\* a title of n letters
TitleOfLen(n) == SubSeq(Repeat("abcdefghij", (n \div 10) + 1), 1, n)

SubjectTitles ==
    {JUndef}
    \cup {JStr(TitleOfLen(n)) : n \in 0..MaxTitle}
    \cup {JStr("  " \o TitleOfLen(n) \o " ") : n \in 0..MaxTitle}

SubjectCalls ==
    {[fn |-> "subjectFrom", title |-> t, type |-> ty] :
        t \in SubjectTitles, ty \in Types}
    \cup {[fn |-> "subjectFrom", title |-> t, type |-> ty] :
            t \in {JUndef, JStr("Q3 Sync")}, ty \in OutsideTypes}

UsesLocale(c) ==
    /\ c.fn = "composeEmail"
    /\ Truthy(c.opts.date)
    /\ DateParse(Trim(c.opts.date.s)).ok

NoCall == [fn |-> "none"]
NoReq == [kind |-> "none"]
NoRemote == [state |-> "none"]
NoResp == [kind |-> "none"]
NothingReached == [extractor |-> 0, composer |-> 0, remote |-> 0]
NoForm == [kind |-> "none"]

RouteIdle ==
    /\ hasKey = FALSE
    /\ pc = "off"
    /\ req = NoReq
    /\ remote = NoRemote
    /\ resp = NoResp
    /\ reached = NothingReached

InitCompose ==
    /\ call \in ComposeCalls \cup SubjectCalls
    /\ env \in Envs
    /\ (env = DefaultEnv \/ UsesLocale(call))
    /\ ret = [done |-> FALSE]
    /\ RouteIdle
    /\ form = NoForm

\* how many calls ret has seen
CallsMade == IF ret.done THEN ret.calls ELSE 0

\* what the call before the last one returned
NoEarlier == [any |-> FALSE]
LastReturn ==
    IF ~ret.done THEN NoEarlier
    ELSE IF ret.fn = "composeEmail"
         THEN [any |-> TRUE, threw |-> ret.threw, body |-> ret.body]
         ELSE [any |-> TRUE, subject |-> ret.subject]

\* mutant: the parts of the body are kept between calls, so that a later
\* call returns the earlier body followed by its own
CallComposeEmail_KeepsParts ==
    /\ call.fn = "composeEmail"
    /\ CallsMade < MaxCalls
    /\ ret' = [done |-> TRUE, fn |-> "composeEmail",
               threw |-> composeEmail(call.opts, env).threw,
               body |-> (IF ret.done THEN ret.body \o "\n" ELSE "")
                        \o composeEmail(call.opts, env).body,
               calls |-> CallsMade + 1, earlier |-> LastReturn]
    /\ UNCHANGED <<form, env, call, hasKey, pc, req, remote, resp, reached>>

\* a call of composeEmail with the arguments in call; the caller may repeat
\* it.  The function reads opts and writes to its local parts only.
CallComposeEmail ==
    /\ call.fn = "composeEmail"
    /\ CallsMade < MaxCalls
    /\ ret' = [done |-> TRUE, fn |-> "composeEmail",
               threw |-> composeEmail(call.opts, env).threw,
               body |-> composeEmail(call.opts, env).body,
               calls |-> CallsMade + 1, earlier |-> LastReturn]
    /\ UNCHANGED <<form, env, call, hasKey, pc, req, remote, resp, reached>>

\* a call of subjectFrom with the arguments in call
CallSubjectFrom ==
    /\ call.fn = "subjectFrom"
    /\ CallsMade < MaxCalls
    /\ ret' = [done |-> TRUE, fn |-> "subjectFrom",
               subject |-> subjectFrom(call.title, call.type),
               calls |-> CallsMade + 1, earlier |-> LastReturn]
    /\ UNCHANGED <<form, env, call, hasKey, pc, req, remote, resp, reached>>

NextCompose == CallComposeEmail \/ CallSubjectFrom

SpecCompose == InitCompose /\ [][NextCompose]_vars

(***************************************************************************)
(* Properties of the composer (specification SpecCompose).                 *)
(***************************************************************************)
Headings == {"Summary", "Decisions", "Action Items", "Open Questions"}

\* composeEmail has returned a body
Composed == ret.done /\ call.fn = "composeEmail" /\ ~ret.threw

HasLine(text, l) ==
    LET ls == Lines(text)
    IN  \E i \in 1..Len(ls) : ls[i] = l

\* index of the first empty line of a sequence of lines, 0 if none
FirstBlank(ls) ==
    IF \E i \in 1..Len(ls) : ls[i] = ""
    THEN CHOOSE i \in 1..Len(ls) : ls[i] = "" /\ \A j \in 1..(i - 1) : ls[j] # ""
    ELSE 0

\* the lines after the blank line that closes the Attendees block
AfterHeader(text) ==
    LET ls == Lines(text)
    IN  SubSeq(ls, FirstBlank(ls) + 1, Len(ls))

ExpectedGreeting(audience) ==
    CASE audience = "client" -> "Hi team,"
      [] audience = "stakeholder" -> "Hello,"
      [] OTHER -> "Hi all,"

ExpectedSignoff(tone) ==
    CASE tone = "formal" -> "Best regards,"
      [] tone = "friendly" -> "Thanks so much,"
      [] tone = "persuasive" -> "Thanks in advance,"
      [] tone = "casual" -> "Cheers,"
      [] OTHER -> "Thanks!"

IsBlankText(v) == IsNullish(v) \/ Trim(v.s) = ""

ExpectedAttendees(participants) ==
    IF IsBlankText(participants) THEN "Attendees: " \o EmDash
    ELSE "Attendees: " \o Trim(participants.s)

\* C1: with type = action-only the body has no Summary, Decisions or Open
\* Questions heading line, no line of the summary text, no decision bullet and
\* no question bullet, whatever summary, decisions and questions hold; after
\* the Attendees block comes at most the Action Items section (a heading, one
\* bullet per action, a blank line) and then the sign-off.
C1_ActionOnlySuppresses ==
    (Composed /\ call.opts.type = "action-only") =>
        LET o == call.opts
            rest == AfterHeader(ret.body)
            na == Len(o.actions)
            sm == Lines(Trim(o.summary.s))
        IN  /\ \A h \in {"Summary", "Decisions", "Open Questions"} :
                    ~HasLine(ret.body, h)
            /\ \A i \in 1..Len(sm) : sm[i] # "" => ~HasLine(ret.body, sm[i])
            /\ \A i \in 1..Len(o.decisions) :
                    ~HasLine(ret.body, "- " \o ToStr(o.decisions[i]))
            /\ \A i \in 1..Len(o.questions) :
                    ~HasLine(ret.body, "- " \o ToStr(o.questions[i]))
            /\ IF na = 0
               THEN rest = <<ExpectedSignoff(o.tone), "{your name}">>
               ELSE /\ Len(rest) = na + 4
                    /\ rest[1] = "Action Items"
                    /\ \A i \in 2..(na + 1) : StartsWith(rest[i], "- ")
                    /\ rest[na + 2] = ""
                    /\ rest[na + 3] = ExpectedSignoff(o.tone)
                    /\ rest[na + 4] = "{your name}"

C1_Witness ==
    /\ Composed
    /\ call.opts.type = "action-only"
    /\ Trim(call.opts.summary.s) # ""
    /\ Len(call.opts.decisions) > 0
    /\ Len(call.opts.questions) > 0
    /\ Len(call.opts.actions) > 0
    /\ HasLine(ret.body, "Action Items")

\* the text has the section heading h: a line h that opens a section, that
\* is, one that follows a blank line
HasHeading(text, h) ==
    LET ls == Lines(text)
    IN  \E i \in 2..Len(ls) : ls[i] = h /\ ls[i - 1] = ""

\* C2: a section heading is emitted iff its section has content and the type
\* allows it: Summary iff type is not action-only and the trimmed summary is
\* non-empty, Decisions iff type is not action-only and decisions is
\* non-empty, Action Items iff actions is non-empty, Open Questions iff type
\* is not action-only and questions is non-empty; every heading is followed
\* by a content line.
C2_HeadingIffContent ==
    Composed =>
        LET o == call.opts
            ls == Lines(ret.body)
            allowed == o.type # "action-only"
        IN  /\ HasHeading(ret.body, "Summary")
                <=> (allowed /\ Trim(o.summary.s) # "")
            /\ HasHeading(ret.body, "Decisions")
                <=> (allowed /\ Len(o.decisions) > 0)
            /\ HasHeading(ret.body, "Action Items") <=> (Len(o.actions) > 0)
            /\ HasHeading(ret.body, "Open Questions")
                <=> (allowed /\ Len(o.questions) > 0)
            /\ \A i \in 2..Len(ls) :
                    (ls[i] \in Headings /\ ls[i - 1] = "") =>
                        (i < Len(ls) /\ ls[i + 1] # "")

C2_Witness ==
    /\ Composed
    /\ call.opts.type = "follow-up"
    /\ Len(call.opts.decisions) = 0
    /\ Len(call.opts.questions) = 0
    /\ Len(call.opts.actions) > 0
    /\ HasHeading(ret.body, "Action Items")
    /\ ~HasLine(ret.body, "Decisions")
    /\ ~HasLine(ret.body, "Open Questions")

\* the number of lines of a text that start with the prefix p
CountStarting(text, p) ==
    LET ls == Lines(text)
    IN  Cardinality({i \in 1..Len(ls) : StartsWith(ls[i], p)})

\* C3 as stated: for every input the body has exactly one line starting with
\* "Attendees: ", it is the third line, and it reads "Attendees: " followed by
\* the em dash (participants absent or blank) or by the trimmed participants.
C3_Original ==
    Composed =>
        /\ CountStarting(ret.body, "Attendees: ") = 1
        /\ Len(Lines(ret.body)) >= 3
        /\ Lines(ret.body)[3] = ExpectedAttendees(call.opts.participants)

\* no text field of the input holds a line break
NoLineBreaks(o) ==
    /\ \A f \in {"title", "date", "participants", "summary"} :
            IsNullish(o[f]) \/ ~HasLineBreak(ToStr(o[f]))
    /\ \A f \in {"decisions", "questions"} :
            \A i \in 1..Len(o[f]) : ~HasLineBreak(ToStr(o[f][i]))
    /\ \A i \in 1..Len(o.actions) :
            \A g \in {"owner", "task", "due"} :
                ~HasLineBreak(ToStr(Get(o.actions[i], g)))

\* C3 (amended): for every input whose text fields hold no line break the
\* third line of the body is the Attendees line, with the em dash when
\* participants is absent or blank and the trimmed participants otherwise; it
\* is never omitted, and any other line starting with "Attendees: " is the
\* summary text itself.
C3_AttendeesLine ==
    (Composed /\ NoLineBreaks(call.opts)) =>
        LET o == call.opts
            ls == Lines(ret.body)
        IN  /\ Len(ls) >= 3
            /\ ls[3] = ExpectedAttendees(o.participants)
            /\ \A i \in 1..Len(ls) :
                    (i # 3 /\ StartsWith(ls[i], "Attendees: ")) =>
                        (o.type # "action-only" /\ ls[i] = Trim(o.summary.s))

C3_Witness ==
    /\ Composed
    /\ NoLineBreaks(call.opts)
    /\ call.opts.participants = JStr(" \t")
    /\ StartsWith(Trim(call.opts.summary.s), "Attendees: ")
    /\ call.opts.type = "summary"
    /\ Lines(ret.body)[3] = "Attendees: " \o EmDash
    /\ CountStarting(ret.body, "Attendees: ") = 2

IsEmptyExtraction(o) ==
    /\ o.summary = JStr("")
    /\ Len(o.decisions) = 0
    /\ Len(o.actions) = 0
    /\ Len(o.questions) = 0

\* C4: with an empty Extraction, for every valid audience, tone and type, the
\* body is non-empty and is exactly the greeting, the intro, the Attendees
\* line, one blank line, the sign-off and the placeholder name, joined by line
\* breaks, with no section heading.
C4_EmptyExtractionMinimal ==
    (Composed /\ IsEmptyExtraction(call.opts)) =>
        LET o == call.opts
        IN  /\ ret.body # ""
            /\ ret.body =
                    ExpectedGreeting(o.audience) \o "\n"
                    \o introLine(o, env) \o "\n"
                    \o ExpectedAttendees(o.participants) \o "\n"
                    \o "\n"
                    \o ExpectedSignoff(o.tone) \o "\n"
                    \o "{your name}"
            /\ \A h \in Headings : ~HasLine(ret.body, h)

C4_Witness ==
    /\ Composed
    /\ IsEmptyExtraction(call.opts)
    /\ call.opts.tone = "casual"
    /\ call.opts.audience = "stakeholder"
    /\ call.opts.type = "follow-up"
    /\ Len(Lines(ret.body)) = 6

ExpectedSuffix(type) ==
    CASE type = "summary" -> "summary"
      [] type = "action-only" -> "action items"
      [] OTHER -> "follow-up"

ExpectedFullSubject(title, type) ==
    (IF IsBlankText(title) THEN "Meeting" ELSE Trim(title.s))
    \o " " \o EmDash \o " " \o ExpectedSuffix(type)

\* C5: subjectFrom returns "<base> - <suffix>" cut to its first 70 characters
\* (base: the trimmed title, or "Meeting" when the title is absent or blank;
\* suffix by type), so it is never longer than 70 characters and is the full
\* string when that has at most 70 characters.
C5_SubjectCut ==
    (ret.done /\ call.fn = "subjectFrom") =>
        LET full == ExpectedFullSubject(call.title, call.type)
        IN  /\ Len(ret.subject) <= 70
            /\ ret.subject = SubSeq(full, 1, Min(70, Len(full)))
            /\ Len(full) <= 70 => ret.subject = full

C5_Witness ==
    /\ ret.done
    /\ call.fn = "subjectFrom"
    /\ Len(ExpectedFullSubject(call.title, call.type)) > 70
    /\ Len(ret.subject) = 70
    /\ call.type = "action-only"

\* the text between the first two double quotes of a line
QuotedSegment(s) ==
    LET a == IndexOfChar(s, "\"")
        rest == SubSeq(s, a + 1, Len(s))
    IN  SubSeq(rest, 1, IndexOfChar(rest, "\"") - 1)

DefaultNoun(tone) ==
    CASE tone = "formal" -> "meeting"
      [] tone = "friendly" -> "our meeting"
      [] tone = "casual" -> "today" \o Apos \o "s chat"
      [] OTHER -> "the meeting"

\* C6: when the title is absent, empty or only white space, the quoted title
\* segment of the intro line is the tone's default noun, never the empty string.
C6_TitleNeverEmpty ==
    (Composed /\ IsBlankText(call.opts.title)) =>
        /\ QuotedSegment(Lines(ret.body)[2]) # ""
        /\ QuotedSegment(Lines(ret.body)[2]) = DefaultNoun(call.opts.tone)

\* what the code does hold to: the default noun when the title is absent
C6_AbsentTitleDefault ==
    (Composed /\ IsNullish(call.opts.title)) =>
        QuotedSegment(Lines(ret.body)[2]) = DefaultNoun(call.opts.tone)

\* sub occurs in s
Contains(s, sub) ==
    \E i \in 1..(Len(s) - Len(sub) + 1) : SubSeq(s, i, i + Len(sub) - 1) = sub

EndsWith(s, sub) ==
    Len(sub) <= Len(s) /\ SubSeq(s, Len(s) - Len(sub) + 1, Len(s)) = sub

\* the intro of the concise tone around a title and a date text
ConciseIntro(title, when) ==
    "Here" \o Apos \o "s a quick follow-up from \""
    \o (IF IsNullish(title) THEN "the meeting" ELSE Trim(title.s))
    \o "\" (" \o when \o ")."

\* the call is one of those made with a value outside an enumeration
OutsideCall ==
    /\ ret.done
    /\ \/ call.fn = "subjectFrom" /\ call.type \notin Types
       \/ /\ call.fn = "composeEmail"
          /\ call.opts \in DefaultArmCalls
          /\ \/ call.opts.audience \notin Audiences
             \/ call.opts.tone \notin Tones
             \/ call.opts.type \notin Types

\* C17: composeEmail and subjectFrom do not throw on an audience, tone or type
\* outside the enumerations, and use the defaults: an unrecognised tone
\* gives the concise intro and the sign-off "Thanks!", an unrecognised or
\* unset audience gives the greeting "Hi all,", an unrecognised type is
\* rendered like follow-up (Summary, Decisions and Open Questions appear when
\* they have content; the subject ends with "follow-up").
C17_DefaultArms ==
    OutsideCall =>
        IF call.fn = "subjectFrom"
        THEN EndsWith(ret.subject, " " \o EmDash \o " follow-up")
        ELSE LET o == call.opts
                 ls == Lines(ret.body)
             IN  /\ ~ret.threw
                 /\ o.audience \notin Audiences => ls[1] = "Hi all,"
                 /\ o.tone \notin Tones =>
                        /\ ls[2] = ConciseIntro(o.title, "next Friday")
                        /\ ls[Len(ls) - 1] = "Thanks!"
                        /\ ls[Len(ls)] = "{your name}"
                 /\ o.type \notin Types =>
                        /\ HasHeading(ret.body, "Summary")
                                <=> Trim(o.summary.s) # ""
                        /\ HasHeading(ret.body, "Decisions")
                                <=> Len(o.decisions) > 0
                        /\ HasHeading(ret.body, "Action Items")
                                <=> Len(o.actions) > 0
                        /\ HasHeading(ret.body, "Open Questions")
                                <=> Len(o.questions) > 0

C17_Witness ==
    /\ Composed
    /\ call.opts.audience = "everyone"
    /\ call.opts.tone = "angry"
    /\ call.opts.type = "memo"
    /\ Len(call.opts.questions) > 0
    /\ Lines(ret.body)[1] = "Hi all,"
    /\ HasLine(ret.body, "Thanks!")
    /\ HasHeading(ret.body, "Open Questions")

\* what a call returned, without the bookkeeping of the calls
Returned(r) ==
    IF r.fn = "composeEmail" THEN <<r.threw, r.body>> ELSE <<r.subject>>

ScenarioComposed == Composed /\ call.opts \in ScenarioCalls

\* C20: for audience client, tone formal, type summary, title "Q3 Sync", date
\* "2025-08-01" and empty participants, the first line of the body is "Hi
\* team,", the second contains "Q3 Sync" and the date as "1 Aug 2025", and the
\* Attendees line is exactly "Attendees: " followed by the dash.
C20_Scenario ==
    ScenarioComposed =>
        LET ls == Lines(ret.body)
        IN  /\ ls[1] = "Hi team,"
            /\ Contains(ls[2], "Q3 Sync")
            /\ Contains(ls[2], "1 Aug 2025")
            /\ ls[3] = "Attendees: " \o EmDash

\* what the code holds to: the same where the runtime's default locale
\* writes day, month, year and its time zone is not behind UTC
C20_ScenarioInDayFirstLocale ==
    (ScenarioComposed /\ env = DefaultEnv) => C20_Scenario

\* the lines of the section with heading h: those after the heading (a
\* line h that follows a blank line) up to the next blank line
SectionLines(text, h) ==
    LET ls == Lines(text)
        hs == {i \in 2..Len(ls) : ls[i] = h /\ ls[i - 1] = ""}
        at == CHOOSE i \in hs : \A j \in hs : i <= j
        blanks == {i \in (at + 1)..Len(ls) : ls[i] = ""}
        stop == CHOOSE i \in blanks : \A j \in blanks : i <= j
    IN  IF hs = {} THEN <<>> ELSE SubSeq(ls, at + 1, stop - 1)

\* the bullet of an action item: "- <owner> - <task>", "TBD" for an owner
\* that is empty or missing, " - <due>" when due is not empty
ExpectedActionLine(a) ==
    LET owner == Get(a, "owner")
        due == Get(a, "due")
    IN  "- " \o (IF owner \in {JUndef, JStr("")} THEN "TBD" ELSE owner.s)
        \o " " \o EmDash \o " " \o Get(a, "task").s
        \o (IF due \in {JUndef, JStr("")} THEN "" ELSE " " \o EmDash \o " " \o due.s)

ExpectedActionLines(actions) ==
    [i \in 1..Len(actions) |-> ExpectedActionLine(actions[i])]

\* no owner, task or due of the actions holds a line break
ActionsOnOneLine(actions) ==
    \A i \in 1..Len(actions) :
        \A g \in {"owner", "task", "due"} :
            ~HasLineBreak(ToStr(Get(actions[i], g)))

\* the statement of C21 as it stands, for every non-empty actions sequence
C21_Original ==
    (Composed /\ Len(call.opts.actions) > 0) =>
        SectionLines(ret.body, "Action Items") =
            ExpectedActionLines(call.opts.actions)

\* C21: for every non-empty actions sequence whose owner, task and due hold no
\* line break, the body has under "Action Items" exactly one line per action,
\* in input order, "- <owner> - <task>" with "TBD" for an empty or missing
\* owner, the task verbatim, and the suffix " - <due>" iff due is non-empty.
C21_ActionLines ==
    (/\ Composed
     /\ Len(call.opts.actions) > 0
     /\ ActionsOnOneLine(call.opts.actions)) =>
        LET shown == SectionLines(ret.body, "Action Items")
            acts == call.opts.actions
        IN  /\ shown = ExpectedActionLines(acts)
            /\ Len(shown) = Len(acts)
            /\ \A i \in 1..Len(acts) :
                    /\ Contains(shown[i], Get(acts[i], "task").s)
                    /\ EndsWith(shown[i], " " \o EmDash \o " " \o ToStr(Get(acts[i], "due")))
                        <=> Truthy(Get(acts[i], "due"))

C21_Witness ==
    /\ Composed
    /\ call.opts.actions = <<ActionItem(1), ActionItem(2)>>
    /\ SectionLines(ret.body, "Action Items") =
            <<"- Anna " \o EmDash \o " draft client comms " \o EmDash \o " Fri",
              "- TBD " \o EmDash \o " review the terms">>

\* the statement of C24 as it stands, for every input
C24_Original ==
    Composed =>
        LET ls == Lines(ret.body)
            o == call.opts
        IN  /\ Len(ls) >= 6
            /\ ls[1] = ExpectedGreeting(o.audience)
            /\ ls[2] = introLine(o, env)
            /\ ls[4] = ""
            /\ ls[Len(ls) - 1] = ExpectedSignoff(o.tone)
            /\ ls[Len(ls)] = "{your name}"

\* title, date and participants hold no line break
HeaderOnOneLine(o) ==
    \A f \in {"title", "date", "participants"} :
        IsNullish(o[f]) \/ ~HasLineBreak(o[f].s)

\* C24: for every input whose title, date and participants hold no line break
\* the body is framed the same way: the first line is the greeting of the
\* audience, the second the intro, the fourth is blank, and the last two are
\* the sign-off of the tone and "{your name}"; with a line break in one of
\* those fields only the first line and the last two are as stated.
C24_Framing ==
    Composed =>
        LET ls == Lines(ret.body)
            o == call.opts
        IN  /\ Len(ls) >= 6
            /\ ls[1] = ExpectedGreeting(o.audience)
            /\ ls[Len(ls) - 1] = ExpectedSignoff(o.tone)
            /\ ls[Len(ls)] = "{your name}"
            /\ HeaderOnOneLine(o) =>
                    /\ ls[2] = introLine(o, env)
                    /\ ls[3] = ExpectedAttendees(o.participants)
                    /\ ls[4] = ""

C24_Witness ==
    /\ Composed
    /\ HeaderOnOneLine(call.opts)
    /\ call.opts.audience = "stakeholder"
    /\ call.opts.tone = "persuasive"
    /\ Len(call.opts.decisions) > 0
    /\ Lines(ret.body)[1] = "Hello,"
    /\ Lines(ret.body)[4] = ""
    /\ HasLine(ret.body, "Thanks in advance,")

\* where the sections start: the index of each heading line that follows a
\* blank line, in the order of the lines
HeadingAt(ls) == {i \in 2..Len(ls) : ls[i] \in Headings /\ ls[i - 1] = ""}

\* the rank of a heading in the fixed order of the sections
SectionRank(h) ==
    CASE h = "Summary" -> 1
      [] h = "Decisions" -> 2
      [] h = "Action Items" -> 3
      [] h = "Open Questions" -> 4

\* C25: for every input whose text fields hold no line break, the sections
\* present come in the order Summary, Decisions, Action Items, Open Questions,
\* all after the Attendees line and before the sign-off; each is followed by
\* exactly one blank line, and the body never has two blank lines in a row,
\* whichever sections are present.
C25_SectionOrder ==
    (Composed /\ NoLineBreaks(call.opts)) =>
        LET ls == Lines(ret.body)
            hs == HeadingAt(ls)
            n == Len(ls)
        IN  /\ \A i \in hs : \A j \in hs :
                    i < j => SectionRank(ls[i]) < SectionRank(ls[j])
            /\ \A i \in hs : i > 4 /\ i < n - 2
            /\ \A i \in 1..(n - 1) : ~(ls[i] = "" /\ ls[i + 1] = "")
            \* the line before the next heading, or before the sign-off, is
            \* the one blank line that closes the section
            /\ \A i \in hs :
                    LET later == {j \in hs : j > i}
                        next == IF later = {} THEN n - 1
                                ELSE CHOOSE j \in later : \A k \in later : j <= k
                    IN  /\ ls[next - 1] = ""
                        /\ \A k \in (i + 1)..(next - 2) : ls[k] # ""
            /\ ls[n - 1] # "" /\ ls[n] # ""

C25_Witness ==
    /\ Composed
    /\ NoLineBreaks(call.opts)
    /\ call.opts.type = "follow-up"
    /\ Trim(call.opts.summary.s) = ""
    /\ Len(call.opts.decisions) = 2
    /\ Len(call.opts.actions) = 0
    /\ Len(call.opts.questions) = 1
    /\ Cardinality(HeadingAt(Lines(ret.body))) = 2

\* the first place where sub occurs in s, 0 when it does not
IndexOfSub(s, sub) ==
    LET hits == {i \in 1..(Len(s) - Len(sub) + 1) :
                    SubSeq(s, i, i + Len(sub) - 1) = sub}
    IN  IF hits = {} THEN 0 ELSE CHOOSE i \in hits : \A j \in hits : i <= j

\* the text of s between the first a and the first b after it
Between(s, a, b) ==
    LET rest == SubSeq(s, IndexOfSub(s, a) + Len(a), Len(s))
    IN  SubSeq(rest, 1, IndexOfSub(rest, b) - 1)

\* the date text the intro of a body shows, read out of the tone's sentence
WhenShown(body, tone) ==
    CASE tone = "formal" ->
            Between(body, "\" session held on ", " are summarised below.")
      [] tone = "friendly" -> Between(body, "\" on ", ". Here")
      [] tone = "persuasive" -> Between(body, "\" on ", ", here")
      [] OTHER -> Between(body, "\" (", ").")

\* the renderings of 1 August 2025 and of the day before
AugustFirstTexts ==
    {"1 Aug 2025", "Aug 1, 2025", "31 Jul 2025", "Jul 31, 2025"}

Lengths == {"short", "medium", "long"}
MinNotes == 10

IsOptionalString(v) == v.k \in {"undefined", "string"}
IsEnum(v, values) == v.k = "string" /\ v.s \in values

\* bodySchema.safeParse(json).success
bodySchema(json) ==
    /\ json.k = "object"
    /\ IsOptionalString(Get(json, "title"))
    /\ IsOptionalString(Get(json, "date"))
    /\ IsOptionalString(Get(json, "participants"))
    /\ IsEnum(Get(json, "audience"), Audiences)
    /\ IsEnum(Get(json, "tone"), Tones)
    /\ IsEnum(Get(json, "type"), Types)
    /\ IsEnum(Get(json, "length"), Lengths)
    /\ Get(json, "notes").k = "string"
    /\ Len(Get(json, "notes").s) >= MinNotes

\* parsed.data
ParsedData(json) ==
    [title |-> Get(json, "title"), date |-> Get(json, "date"),
     participants |-> Get(json, "participants"),
     audience |-> Get(json, "audience").s, tone |-> Get(json, "tone").s,
     type |-> Get(json, "type").s, length |-> Get(json, "length").s,
     notes |-> Get(json, "notes").s]

(***************************************************************************)
(* app/api/generate/route.ts: the fallback path's extractor                *)
(***************************************************************************)
UpperLetters == "ABCDEFGHIJKLMNOPQRSTUVWXYZ"
LowerLetters == "abcdefghijklmnopqrstuvwxyz"

IsUpper(c) == IndexOfChar(UpperLetters, c) # 0
IsLetter(c) == IsUpper(c) \/ IndexOfChar(LowerLetters, c) # 0
\* \w
IsWordChar(c) == IsLetter(c) \/ IsDigit(c) \/ c = "_"

LowerChar(c) ==
    IF IsUpper(c) THEN CharAt(LowerLetters, IndexOfChar(UpperLetters, c)) ELSE c

RECURSIVE LowerStr(_)
LowerStr(s) ==
    IF Len(s) = 0 THEN ""
    ELSE LowerChar(CharAt(s, 1)) \o LowerStr(SubSeq(s, 2, Len(s)))

\* the word w (lower case) stands at position i of s, whatever the case
WordAt(s, i, w) ==
    /\ i >= 1
    /\ i + Len(w) - 1 <= Len(s)
    /\ LowerStr(SubSeq(s, i, i + Len(w) - 1)) = w

\* /w/i.test(s)
ContainsCI(s, w) == \E i \in 1..Len(s) : WordAt(s, i, w)

WordCharAt(s, i) == i >= 1 /\ i <= Len(s) /\ IsWordChar(CharAt(s, i))

\* \b between the characters i - 1 and i of s
BoundaryAt(s, i) == WordCharAt(s, i - 1) # WordCharAt(s, i)

\* s.split(/\r?\n/)
SplitBreaks(s) ==
    LET ls == Lines(s)
    IN  [i \in 1..Len(ls) |->
            IF /\ i < Len(ls)
               /\ Len(ls[i]) > 0
               /\ CharAt(ls[i], Len(ls[i])) = "\r"
            THEN SubSeq(ls[i], 1, Len(ls[i]) - 1)
            ELSE ls[i]]

\* Array.prototype.slice(0, n)
Take(xs, n) == SubSeq(xs, 1, Min(n, Len(xs)))

\* mutant: the lines are not trimmed before the empty ones are dropped
NoteLines_NoTrim(notes) ==
    LET raw == SplitBreaks(notes)
        NonEmpty(l) == l # ""
    IN  SelectSeq(raw, NonEmpty)

\* p.notes.split(/\r?\n/).map(l => l.trim()).filter(Boolean)
NoteLines(notes) ==
    LET raw == SplitBreaks(notes)
        NonEmpty(l) == l # ""
    IN  SelectSeq([i \in 1..Len(raw) |-> Trim(raw[i])], NonEmpty)

\* mutant: the tokens are matched as substrings, without the word boundaries
IsActionLine_Substring(l) ==
    \/ \E w \in {"to", "by", "due", "assign", "owner", "review", "followup",
                  "follow up"} : ContainsCI(l, w)

\* /\b(to|by|due|assign|owner|review|follow\s*up)\b/i.test(l)
IsActionLine(l) ==
    \E i \in 1..Len(l) :
        /\ BoundaryAt(l, i)
        /\ \/ \E w \in {"to", "by", "due", "assign", "owner", "review"} :
                WordAt(l, i, w) /\ BoundaryAt(l, i + Len(w))
           \/ /\ WordAt(l, i, "follow")
              /\ \E k \in 0..Len(l) :
                    /\ \A j \in (i + 6)..(i + 5 + k) :
                            j <= Len(l) /\ IsWS(CharAt(l, j))
                    /\ WordAt(l, i + 6 + k, "up")
                    /\ BoundaryAt(l, i + 8 + k)

\* l.match(/^([A-Z][a-zA-Z]+)/): the leading run of letters, when it starts
\* with an upper-case letter and has a second letter
LeadingLetters(l) ==
    LET stops == {i \in 1..Len(l) : ~IsLetter(CharAt(l, i))}
        n == IF stops = {} THEN Len(l)
             ELSE (CHOOSE i \in stops : \A j \in stops : i <= j) - 1
    IN  SubSeq(l, 1, n)

\* mutant: a leading list marker is skipped before the owner is read
OwnerOf_SkipBullet(l) ==
    LET t == IF StartsWith(l, "- ") THEN SubSeq(l, 3, Len(l)) ELSE l
    IN  IF Len(LeadingLetters(t)) >= 2 /\ IsUpper(CharAt(t, 1))
        THEN LeadingLetters(t) ELSE "TBD"

OwnerOf(l) ==
    IF /\ Len(LeadingLetters(l)) >= 2
       /\ IsUpper(CharAt(l, 1))
    THEN LeadingLetters(l) ELSE "TBD"

\* /decided|agree|approved?|keep|choose|conclude|push|move/i.test(l)
IsDecisionLine(l) ==
    \E w \in {"decided", "agree", "approve", "keep", "choose", "conclude",
              "push", "move"} : ContainsCI(l, w)

\* /\?$/.test(l) || /open|blocker|unknown|pending/i.test(l)
IsQuestionLine(l) ==
    \/ (Len(l) > 0 /\ CharAt(l, Len(l)) = "?")
    \/ \E w \in {"open", "blocker", "unknown", "pending"} : ContainsCI(l, w)

ExtractCap == 50
SummaryLines == 8

\* mutant: the summary of an earlier variant of the route, three lines
\* between a fixed opener and an ellipsis
HeuristicExtract_ThreeLines(notes) ==
    LET lines == NoteLines(notes)
        acts == Take(SelectSeq(lines, IsActionLine), ExtractCap)
    IN  [summary |-> JStr("Quick summary: " \o Join(Take(lines, 3), " ") \o " ..."),
         decisions |->
            LET ds == Take(SelectSeq(lines, IsDecisionLine), ExtractCap)
            IN  [i \in 1..Len(ds) |-> JStr(ds[i])],
         actions |->
            [i \in 1..Len(acts) |->
                JObj([owner |-> JStr(OwnerOf(acts[i])), task |-> JStr(acts[i]),
                      due |-> JStr("")])],
         questions |->
            LET qs == Take(SelectSeq(lines, IsQuestionLine), ExtractCap)
            IN  [i \in 1..Len(qs) |-> JStr(qs[i])]]

\* mutant: a line taken as an action is not taken as a decision or question
HeuristicExtract_Exclusive(notes) ==
    LET lines == NoteLines(notes)
        acts == Take(SelectSeq(lines, IsActionLine), ExtractCap)
        NotAction(l) == ~IsActionLine(l)
        others == SelectSeq(lines, NotAction)
    IN  [summary |-> JStr(Join(Take(lines, SummaryLines), " ")),
         decisions |->
            LET ds == Take(SelectSeq(others, IsDecisionLine), ExtractCap)
            IN  [i \in 1..Len(ds) |-> JStr(ds[i])],
         actions |->
            [i \in 1..Len(acts) |->
                JObj([owner |-> JStr(OwnerOf(acts[i])), task |-> JStr(acts[i]),
                      due |-> JStr("")])],
         questions |->
            LET qs == Take(SelectSeq(others, IsQuestionLine), ExtractCap)
            IN  [i \in 1..Len(qs) |-> JStr(qs[i])]]

\* mutant: the summary is glued from the action lines only
HeuristicExtract_SummaryOfActions(notes) ==
    LET lines == NoteLines(notes)
        acts == Take(SelectSeq(lines, IsActionLine), ExtractCap)
    IN  [summary |-> JStr(Join(Take(acts, SummaryLines), " ")),
         decisions |->
            LET ds == Take(SelectSeq(lines, IsDecisionLine), ExtractCap)
            IN  [i \in 1..Len(ds) |-> JStr(ds[i])],
         actions |->
            [i \in 1..Len(acts) |->
                JObj([owner |-> JStr(OwnerOf(acts[i])), task |-> JStr(acts[i]),
                      due |-> JStr("")])],
         questions |->
            LET qs == Take(SelectSeq(lines, IsQuestionLine), ExtractCap)
            IN  [i \in 1..Len(qs) |-> JStr(qs[i])]]

\* the fallback path's extraction (route.ts, lines 113-133)
HeuristicExtract(notes) ==
    LET lines == NoteLines(notes)
        acts == Take(SelectSeq(lines, IsActionLine), ExtractCap)
    IN  [summary |-> JStr(Join(Take(lines, SummaryLines), " ")),
         decisions |->
            LET ds == Take(SelectSeq(lines, IsDecisionLine), ExtractCap)
            IN  [i \in 1..Len(ds) |-> JStr(ds[i])],
         actions |->
            [i \in 1..Len(acts) |->
                JObj([owner |-> JStr(OwnerOf(acts[i])), task |-> JStr(acts[i]),
                      due |-> JStr("")])],
         questions |->
            LET qs == Take(SelectSeq(lines, IsQuestionLine), ExtractCap)
            IN  [i \in 1..Len(qs) |-> JStr(qs[i])]]

(***************************************************************************)
(* app/api/generate/route.ts: the remote reply                             *)
(***************************************************************************)
\* JSON.parse on the texts a remote reply carries here: the value it returns,
\* or a SyntaxError.  One entry per text of the inputs.
JsonTexts ==
    <<[text |-> "Sorry, I cannot help.", error |-> TRUE, value |-> JUndef],
      [text |-> "", error |-> TRUE, value |-> JUndef],
      [text |-> "{\"summary\": \"Ship in Q3\",", error |-> TRUE, value |-> JUndef],
      [text |-> "{}", error |-> FALSE, value |-> JObj(<<>>)],
      [text |-> "null", error |-> FALSE, value |-> JNull],
      [text |-> "42", error |-> FALSE, value |-> JNum(42)],
      [text |-> "[\"Ship in Q3\"]", error |-> FALSE,
       value |-> JArr(<<JStr("Ship in Q3")>>)],
      [text |-> "{\"summary\":\"Ship in Q3\",\"decisions\":[\"Keep date\"],"
                \o "\"actions\":[{\"owner\":\"Anna\",\"task\":\"draft comms\","
                \o "\"due\":\"Fri\"}],\"questions\":[\"Legal?\"]}",
       error |-> FALSE,
       value |-> JObj([summary |-> JStr("Ship in Q3"),
                       decisions |-> JArr(<<JStr("Keep date")>>),
                       actions |-> JArr(<<JObj([owner |-> JStr("Anna"),
                                                task |-> JStr("draft comms"),
                                                due |-> JStr("Fri")])>>),
                       questions |-> JArr(<<JStr("Legal?")>>)])],
      [text |-> "{\"summary\":5}", error |-> FALSE,
       value |-> JObj([summary |-> JNum(5)])],
      [text |-> "{\"summary\":null,\"decisions\":\"none\",\"actions\":{},"
                \o "\"questions\":7}",
       error |-> FALSE,
       value |-> JObj([summary |-> JNull, decisions |-> JStr("none"),
                       actions |-> JObj(<<>>), questions |-> JNum(7)])],
      [text |-> "{\"summary\":\"Ship in Q3\",\"actions\":\"later\"}",
       error |-> FALSE,
       value |-> JObj([summary |-> JStr("Ship in Q3"),
                       actions |-> JStr("later")])],
      [text |-> "{\"actions\":[null]}", error |-> FALSE,
       value |-> JObj([actions |-> JArr(<<JNull>>)])],
      [text |-> "{\"actions\":[\"call Bob\",{\"task\":\"review\"}]}",
       error |-> FALSE,
       value |-> JObj([actions |->
                    JArr(<<JStr("call Bob"), JObj([task |-> JStr("review")])>>)])],
      [text |-> "{\"decisions\":[1,null],\"questions\":[true]}",
       error |-> FALSE,
       value |-> JObj([decisions |-> JArr(<<JNum(1), JNull>>),
                       questions |-> JArr(<<JBool(TRUE)>>)])]>>

JsonEntry(text) ==
    JsonTexts[CHOOSE i \in 1..Len(JsonTexts) : JsonTexts[i].text = text]

\* the resolved value of client.chat.completions.create: no choice at all,
\* a choice whose content is null, or a choice with a text content
RemoteReplies ==
    {[choices |-> 0, content |-> JUndef], [choices |-> 1, content |-> JNull]}
    \cup {[choices |-> 1, content |-> JStr(JsonTexts[i].text)] :
            i \in 1..Len(JsonTexts)}

\* extraction.choices[0]?.message?.content ?? "{}"
RawContent(reply) ==
    IF reply.choices = 0 \/ IsNullish(reply.content) THEN "{}"
    ELSE reply.content.s

EmptyExtractionData ==
    JObj([summary |-> JStr(""), decisions |-> JArr(<<>>),
          actions |-> JArr(<<>>), questions |-> JArr(<<>>)])

\* mutant: a parse failure is not replaced by the empty extraction
ParseData_NoCatch(raw) ==
    IF JsonEntry(raw).error THEN JNull ELSE JsonEntry(raw).value

\* let data = {}; try { data = JSON.parse(raw) } catch { data = <empty> }
ParseData(raw) ==
    IF JsonEntry(raw).error THEN EmptyExtractionData ELSE JsonEntry(raw).value

\* v ?? d
OrElse(v, d) == IF IsNullish(v) THEN d ELSE v

\* Array.isArray(v) ? v : []
ArrayOrEmpty(v) == IF v.k = "array" THEN v.a ELSE <<>>

\* the arguments the remote path hands to composeEmail (route.ts, 183-194)
RemoteComposeOpts(p, data) ==
    [title |-> p.title, date |-> p.date, participants |-> p.participants,
     audience |-> p.audience, tone |-> p.tone, type |-> p.type,
     summary |-> OrElse(Get(data, "summary"), JStr("")),
     decisions |-> ArrayOrEmpty(Get(data, "decisions")),
     actions |-> ArrayOrEmpty(Get(data, "actions")),
     questions |-> ArrayOrEmpty(Get(data, "questions"))]

(***************************************************************************)
(* app/api/generate/route.ts: POST                                         *)
(***************************************************************************)
InvalidInput == [status |-> 400, json |-> [error |-> "Invalid input"]]
GenerationFailed == [status |-> 500, json |-> [error |-> "Generation failed."]]
Success(subject, body, actions) ==
    [status |-> 200,
     json |-> [subject |-> subject, body |-> body, actions |-> actions]]

\* mutant: the extractor opens the summary of a casual request with a
\* casual phrase
FallbackResponse_CasualPrefix(p, e) ==
    LET ex == HeuristicExtract(p.notes)
        su == IF p.tone = "casual" /\ ex.summary.s # ""
              THEN JStr("Hey folks " \o EmDash \o " quick recap: " \o ex.summary.s)
              ELSE ex.summary
        out == composeEmail(
                [title |-> p.title, date |-> p.date,
                 participants |-> p.participants, audience |-> p.audience,
                 tone |-> p.tone, type |-> p.type, summary |-> su,
                 decisions |-> ex.decisions, actions |-> ex.actions,
                 questions |-> ex.questions], e)
    IN  IF out.threw THEN GenerationFailed
        ELSE Success(subjectFrom(p.title, p.type), out.body, JArr(ex.actions))

\* the fallback path (route.ts, 111-156): nothing in it throws
FallbackResponse(p, e) ==
    LET ex == HeuristicExtract(p.notes)
        out == composeEmail(
                [title |-> p.title, date |-> p.date,
                 participants |-> p.participants, audience |-> p.audience,
                 tone |-> p.tone, type |-> p.type, summary |-> ex.summary,
                 decisions |-> ex.decisions, actions |-> ex.actions,
                 questions |-> ex.questions], e)
    IN  IF out.threw THEN GenerationFailed
        ELSE Success(subjectFrom(p.title, p.type), out.body, JArr(ex.actions))

\* mutant: when the composer throws, the subject is still returned, with
\* the error
RemoteResponse_PartialOnThrow(p, reply, e) ==
    LET data == ParseData(RawContent(reply))
    IN  IF IsNullish(data)
        THEN [status |-> 500,
              json |-> [error |-> "Generation failed.",
                        subject |-> subjectFrom(p.title, p.type)]]
        ELSE LET out == composeEmail(RemoteComposeOpts(p, data), e)
             IN  IF out.threw
                 THEN [status |-> 500,
                       json |-> [error |-> "Generation failed.",
                                 subject |-> subjectFrom(p.title, p.type)]]
                 ELSE Success(subjectFrom(p.title, p.type), out.body,
                              OrElse(Get(data, "actions"), JArr(<<>>)))

\* the remote path once the call has resolved (route.ts, 175-202): a
\* TypeError on data.summary (data is null) or inside composeEmail lands in
\* the catch
RemoteResponse(p, reply, e) ==
    LET data == ParseData(RawContent(reply))
    IN  IF IsNullish(data) THEN GenerationFailed
        ELSE LET out == composeEmail(RemoteComposeOpts(p, data), e)
             IN  IF out.threw THEN GenerationFailed
                 ELSE Success(subjectFrom(p.title, p.type), out.body,
                              OrElse(Get(data, "actions"), JArr(<<>>)))

\* does the remote path reach composeEmail
RemoteReachesComposer(reply) == ~IsNullish(ParseData(RawContent(reply)))

\* await req.json() rejects: POST throws before it builds any response
PostMalformed ==
    /\ pc = "received"
    /\ req.kind = "malformed"
    /\ pc' = "threw"
    /\ UNCHANGED <<form, env, call, ret, hasKey, req, remote, resp, reached>>

\* the body fails bodySchema: 400
PostInvalid ==
    /\ pc = "received"
    /\ req.kind = "json"
    /\ ~bodySchema(req.json)
    /\ resp' = InvalidInput
    /\ pc' = "done"
    /\ UNCHANGED <<form, env, call, ret, hasKey, req, remote, reached>>

\* no API key: extract locally, compose, respond
PostFallback ==
    /\ pc = "received"
    /\ req.kind = "json"
    /\ bodySchema(req.json)
    /\ ~hasKey
    /\ resp' = FallbackResponse(ParsedData(req.json), env)
    /\ reached' = [reached EXCEPT !.extractor = 1, !.composer = 1]
    /\ pc' = "done"
    /\ UNCHANGED <<form, env, call, ret, hasKey, req, remote>>

\* an API key: send the one request to the remote extractor and await it
PostCallRemote ==
    /\ pc = "received"
    /\ req.kind = "json"
    /\ bodySchema(req.json)
    /\ hasKey
    /\ reached' = [reached EXCEPT !.remote = reached.remote + 1]
    /\ remote' = [state |-> "pending"]
    /\ pc' = "awaitRemote"
    /\ UNCHANGED <<form, env, call, ret, hasKey, req, resp>>

\* the remote call resolves
RemoteResolves ==
    /\ pc = "awaitRemote"
    /\ \E reply \in RemoteReplies :
        /\ resp' = RemoteResponse(ParsedData(req.json), reply, env)
        /\ reached' = [reached EXCEPT
                !.composer = IF RemoteReachesComposer(reply) THEN 1 ELSE 0]
        /\ remote' = [state |-> "resolved", reply |-> reply]
    /\ pc' = "done"
    /\ UNCHANGED <<form, env, call, ret, hasKey, req>>

\* mutant: when the remote call rejects, the request is served by the
\* fallback path instead
RemoteRejects_FallsBack ==
    /\ pc = "awaitRemote"
    /\ resp' = FallbackResponse(ParsedData(req.json), env)
    /\ reached' = [reached EXCEPT !.extractor = 1, !.composer = 1]
    /\ remote' = [state |-> "rejected"]
    /\ pc' = "done"
    /\ UNCHANGED <<form, env, call, ret, hasKey, req>>

\* the import or the remote call rejects (network, timeout, auth): the catch
RemoteRejects ==
    /\ pc = "awaitRemote"
    /\ resp' = GenerationFailed
    /\ remote' = [state |-> "rejected"]
    /\ pc' = "done"
    /\ UNCHANGED <<form, env, call, ret, hasKey, req, reached>>

(***************************************************************************)
(* Requests to the route.  A field that is JUndef is absent from the body. *)
(***************************************************************************)
RouteAudiences == {JUndef, JStr("internal"), JStr("stakeholder"), JStr("everyone")}
RouteTones == {JStr("concise"), JStr("casual"), JStr("angry")}
RouteTypes == {JStr("summary"), JStr("follow-up"), JStr("action-only"), JStr("memo")}
RouteLengths == {JStr("medium"), JStr("huge")}
RouteTitles == {JUndef, JStr(""), JStr("Q3 Sync"), JStr("Q3\nSync"), JNum(7)}
\* n numbered lines, each an action, a decision and a question at once
RECURSIVE NumberedNotes(_)
NumberedNotes(n) ==
    IF n = 0 THEN ""
    ELSE NumberedNotes(n - 1) \o "keep to " \o NatStr(n) \o "?\n"

RouteNotes ==
    {JUndef,
     JStr("too short"),
     JStr("   abc    "),
     JStr("  \n  \r\n      "),
     JStr("- Anna to draft comms by Fri\n- Decided to keep launch date\n"
          \o "- Need legal review?"),
     JStr("Attendees: Ann, Bob\r\nMove launch today"),
     JStr("Move launch today\nship By friday\n  stand-by crew \nReviewed budget\n"
          \o "REVIEW: budget\nfollowup with Sam\nFollow  up Monday\n"
          \o "follow-up call\nassigned owners\nto_do list\nDUE 5pm"),
     JStr("J to review budget\nAnna to draft comms\nThe team to review\n"
          \o "anna to call Bob\nX-ray results due\n3 items to ship"),
     JStr(NumberedNotes(ExtractCap + 1))}

Requests ==
    {[kind |-> "malformed"]}
    \cup {[kind |-> "json",
           json |-> JObj([audience |-> au, tone |-> to, type |-> ty,
                          length |-> le, title |-> ti, notes |-> no])] :
            au \in RouteAudiences, to \in RouteTones, ty \in RouteTypes,
            le \in RouteLengths, ti \in RouteTitles, no \in RouteNotes}

Init ==
    /\ req \in Requests
    /\ hasKey \in BOOLEAN
    /\ pc = "received"
    /\ remote = NoRemote
    /\ resp = NoResp
    /\ reached = NothingReached
    /\ env = DefaultEnv
    /\ call = NoCall
    /\ ret = [done |-> FALSE]
    /\ form = NoForm

Next ==
    \/ PostMalformed
    \/ PostInvalid
    \/ PostFallback
    \/ PostCallRemote
    \/ RemoteResolves
    \/ RemoteRejects

Spec == Init /\ [][Next]_vars

(***************************************************************************)
(* Properties of the route (specification Spec).                           *)
(***************************************************************************)
\* the request is one the claim C7 calls invalid: an enum value outside its
\* enumeration, or notes of fewer than 10 characters after trimming
OutsideEnumOrShortNotes(json) ==
    \/ ~IsEnum(Get(json, "audience"), Audiences)
    \/ ~IsEnum(Get(json, "tone"), Tones)
    \/ ~IsEnum(Get(json, "type"), Types)
    \/ Get(json, "notes").k # "string"
    \/ Len(Trim(Get(json, "notes").s)) < 10

\* C7: every request whose audience, tone or type is outside its enumeration,
\* or whose notes have fewer than 10 characters after trimming, is answered
\* with 400 "Invalid input", and the extractor, the composer and the remote
\* call are not reached for it.
C7_InvalidRejected ==
    (pc # "received" /\ req.kind = "json" /\ OutsideEnumOrShortNotes(req.json)) =>
        /\ pc = "done"
        /\ resp = InvalidInput
        /\ reached = NothingReached

\* what the code holds to: the same with the length of the notes as sent
C7_RejectedByRawLength ==
    (/\ pc # "received"
     /\ req.kind = "json"
     /\ \/ ~IsEnum(Get(req.json, "audience"), Audiences)
        \/ ~IsEnum(Get(req.json, "tone"), Tones)
        \/ ~IsEnum(Get(req.json, "type"), Types)
        \/ Get(req.json, "notes").k # "string"
        \/ Len(Get(req.json, "notes").s) < 10) =>
        /\ pc = "done"
        /\ resp = InvalidInput
        /\ reached = NothingReached

\* C8: every response is all-or-nothing: a success with subject, body and
\* actions together, or an error with nothing but its message ("Invalid
\* input" with 400, "Generation failed." with 500); when the remote call
\* fails the response is the error, with no subject and no body.
C8_AllOrNothing ==
    pc = "done" =>
        /\ \/ /\ resp.status = 200
              /\ DOMAIN resp.json = {"subject", "body", "actions"}
           \/ /\ resp.status = 400
              /\ DOMAIN resp.json = {"error"}
              /\ resp.json.error = "Invalid input"
           \/ /\ resp.status = 500
              /\ DOMAIN resp.json = {"error"}
              /\ resp.json.error = "Generation failed."
        /\ ~("error" \in DOMAIN resp.json
             /\ DOMAIN resp.json \cap {"subject", "body"} # {})
        /\ remote.state = "rejected" =>
                (resp.status = 500 /\ DOMAIN resp.json = {"error"})

C8_Witness ==
    /\ pc = "done"
    /\ remote.state = "rejected"
    /\ reached.remote = 1
    /\ resp = GenerationFailed

\* the remote call resolved and its content parsed as JSON
RemoteParsed ==
    /\ pc = "done"
    /\ remote.state = "resolved"
    /\ ~JsonEntry(RawContent(remote.reply)).error

\* C9: when the remote call succeeds and its content is JSON, of whatever
\* shape, the response is a success with a composed email, never the
\* "Generation failed." error.
C9_WrongShapeSucceeds ==
    RemoteParsed => (resp.status = 200 /\ resp # GenerationFailed)

\* the remote call resolved and its content did not parse as JSON
RemoteUnparsable ==
    /\ pc = "done"
    /\ remote.state = "resolved"
    /\ JsonEntry(RawContent(remote.reply)).error

\* C10: when the remote call succeeds and its content is not JSON, the
\* response is a success whose body is the minimal email (greeting, intro,
\* Attendees line, blank line, sign-off, placeholder name) and whose actions
\* list is empty.
C10_UnparsableGivesMinimal ==
    RemoteUnparsable =>
        LET p == ParsedData(req.json)
        IN  /\ resp.status = 200
            /\ DOMAIN resp.json = {"subject", "body", "actions"}
            /\ resp.json.actions = JArr(<<>>)
            /\ resp.json.body =
                    ExpectedGreeting(p.audience) \o "\n"
                    \o introLine(p, env) \o "\n"
                    \o ExpectedAttendees(p.participants) \o "\n"
                    \o "\n"
                    \o ExpectedSignoff(p.tone) \o "\n"
                    \o "{your name}"
            /\ resp.json.subject = ExpectedFullSubject(p.title, p.type)

C10_Witness ==
    /\ RemoteUnparsable
    /\ remote.reply.content = JStr("Sorry, I cannot help.")
    /\ resp.status = 200
    /\ resp.json.actions = JArr(<<>>)
    /\ Len(Lines(resp.json.body)) = 6

\* C11: on the remote path the remote extractor is called at most once for a
\* request; when that call fails the request ends at once with the single
\* "Generation failed." error: the call is not repeated and neither the
\* heuristic extractor nor the composer runs in its place.
C11_SingleRemoteAttempt ==
    /\ [](reached.remote <= 1)
    /\ [](remote.state = "rejected" =>
            /\ pc = "done"
            /\ resp = GenerationFailed
            /\ reached = [extractor |-> 0, composer |-> 0, remote |-> 1])
    /\ [][/\ reached'.remote # reached.remote =>
                (pc = "received" /\ reached.remote = 0 /\ hasKey)
          /\ remote.state # "rejected"]_vars

C11_Witness ==
    /\ remote.state = "rejected"
    /\ hasKey
    /\ reached.remote = 1
    /\ reached.extractor = 0
    /\ resp.json.error = "Generation failed."

\* a valid request has been handled with no API key configured
FallbackHandled ==
    /\ pc # "received"
    /\ req.kind = "json"
    /\ ~hasKey
    /\ bodySchema(req.json)

\* the notes hold nothing but white space and line breaks
OnlyWhiteSpace(notes) == \A i \in 1..Len(notes) : IsWS(CharAt(notes, i))

\* C12: with no API key every request that passes validation is served by the
\* heuristic extractor alone: no remote call, and always the success response
\* (subject, body, actions), never "Generation failed."; for notes that are
\* empty after trimming each line the summary is empty and there are no
\* decisions, actions or questions.
C12_FallbackAlwaysSucceeds ==
    FallbackHandled =>
        /\ pc = "done"
        /\ resp.status = 200
        /\ DOMAIN resp.json = {"subject", "body", "actions"}
        /\ resp # GenerationFailed
        /\ reached = [extractor |-> 1, composer |-> 1, remote |-> 0]
        /\ remote = NoRemote
        /\ OnlyWhiteSpace(Get(req.json, "notes").s) =>
                /\ HeuristicExtract(Get(req.json, "notes").s) = EmptyEx
                /\ resp.json.actions = JArr(<<>>)
                /\ \A h \in Headings : ~HasHeading(resp.json.body, h)

C12_Witness ==
    /\ FallbackHandled
    /\ OnlyWhiteSpace(Get(req.json, "notes").s)
    /\ resp.status = 200
    /\ Len(AfterHeader(resp.json.body)) = 2

ThreeLineNotes ==
    "- Anna to draft comms by Fri\n- Decided to keep launch date\n"
    \o "- Need legal review?"

ThreeLinesHandled ==
    FallbackHandled /\ Get(req.json, "notes").s = ThreeLineNotes

\* the statement of C13 as it stands: exactly one action item (owner "Anna"
\* or "TBD", task containing "to draft comms by Fri"), exactly one decision
\* and exactly one question
C13_Original ==
    ThreeLinesHandled =>
        LET ex == HeuristicExtract(ThreeLineNotes)
            acts == resp.json.actions.a
        IN  /\ Len(acts) = 1
            /\ Get(acts[1], "owner").s \in {"Anna", "TBD"}
            /\ Contains(Get(acts[1], "task").s, "to draft comms by Fri")
            /\ Len(ex.decisions) = 1
            /\ Contains(ex.decisions[1].s, "Decided to keep launch date")
            /\ Len(ex.questions) = 1
            /\ Contains(ex.questions[1].s, "Need legal review?")

\* C13: heuristic extraction of the three-line input gives three action
\* items, one per line in order (every line holds an action token), each with
\* owner "TBD", the whole line as task and an empty due; exactly one decision,
\* "- Decided to keep launch date"; exactly one question, "- Need legal
\* review?".
C13_ThreeLineExtraction ==
    ThreeLinesHandled =>
        LET ex == HeuristicExtract(ThreeLineNotes)
            acts == resp.json.actions.a
            Item(l) == JObj([owner |-> JStr("TBD"), task |-> JStr(l),
                             due |-> JStr("")])
        IN  /\ acts = <<Item("- Anna to draft comms by Fri"),
                        Item("- Decided to keep launch date"),
                        Item("- Need legal review?")>>
            /\ ex.actions = acts
            /\ ex.decisions = <<JStr("- Decided to keep launch date")>>
            /\ ex.questions = <<JStr("- Need legal review?")>>
            /\ Get(req.json, "type").s # "action-only" =>
                    /\ HasLine(resp.json.body, "- - Decided to keep launch date")
                    /\ HasLine(resp.json.body, "- - Need legal review?")

C13_Witness ==
    /\ ThreeLinesHandled
    /\ Len(resp.json.actions.a) = 3
    /\ Get(req.json, "type").s = "follow-up"
    /\ HasLine(resp.json.body,
               "- TBD " \o EmDash \o " - Anna to draft comms by Fri")

\* the word of l that starts at a: the run of word characters up to the
\* first character that is not one
RunEnd(l, a) ==
    LET stops == {b \in a..Len(l) : ~WordCharAt(l, b + 1)}
    IN  CHOOSE b \in stops : \A c \in stops : b <= c

WordStarts(l) ==
    {a \in 1..Len(l) : WordCharAt(l, a) /\ ~WordCharAt(l, a - 1)}

WordFrom(l, a) == LowerStr(SubSeq(l, a, RunEnd(l, a)))

\* l holds one of the action tokens as a whole word: to, by, due, assign,
\* owner, review, followup, or follow and up with only white space between
HasActionToken(l) ==
    \E a \in WordStarts(l) :
        \/ WordFrom(l, a) \in {"to", "by", "due", "assign", "owner", "review",
                               "followup"}
        \/ /\ WordFrom(l, a) = "follow"
           /\ \E b \in WordStarts(l) :
                /\ b > RunEnd(l, a) + 1
                /\ \A j \in (RunEnd(l, a) + 1)..(b - 1) : IsWS(CharAt(l, j))
                /\ WordFrom(l, b) = "up"

\* the tasks of the returned action items
TasksOf(actions) == [i \in 1..Len(actions) |-> Get(actions[i], "task").s]

\* C14: in the heuristic extractor a line is an action item iff it holds,
\* whatever the case, one of to, by, due, assign, owner, review, follow up /
\* followup as a whole word between word boundaries; a line that holds such a
\* token only inside a longer word ("to" inside "today") is not an action.
C14_Original ==
    FallbackHandled =>
        LET lines == NoteLines(Get(req.json, "notes").s)
        IN  /\ TasksOf(resp.json.actions.a) = SelectSeq(lines, HasActionToken)
            /\ \A i \in 1..Len(lines) :
                    (\E j \in 1..Len(resp.json.actions.a) :
                        Get(resp.json.actions.a[j], "task").s = lines[i])
                    <=> HasActionToken(lines[i])

\* C14, amended: the action items are the lines that hold such a token as a
\* whole word, up to the first 50 of them; a line that holds a token only
\* inside a longer word is not an action, and a line that holds one as a
\* whole word is an action unless 50 such lines come before it.
C14_ActionIffWholeWord ==
    FallbackHandled =>
        LET lines == NoteLines(Get(req.json, "notes").s)
            IsTask(l) == \E j \in 1..Len(resp.json.actions.a) :
                            Get(resp.json.actions.a[j], "task").s = l
            Before(i) == {k \in 1..(i - 1) : HasActionToken(lines[k])}
        IN  /\ TasksOf(resp.json.actions.a)
                    = Take(SelectSeq(lines, HasActionToken), 50)
            /\ \A i \in 1..Len(lines) :
                    /\ ~HasActionToken(lines[i]) => ~IsTask(lines[i])
                    /\ (HasActionToken(lines[i]) /\ Cardinality(Before(i)) < 50)
                            => IsTask(lines[i])

C14_Witness ==
    /\ FallbackHandled
    /\ Contains(Get(req.json, "notes").s, "Move launch today\nship By friday")
    /\ TasksOf(resp.json.actions.a) =
            <<"ship By friday", "stand-by crew", "REVIEW: budget",
              "followup with Sam", "Follow  up Monday", "DUE 5pm">>

\* the letters at the very start of l
RECURSIVE LetterPrefix(_)
LetterPrefix(l) ==
    IF Len(l) = 0 \/ ~IsLetter(CharAt(l, 1)) THEN ""
    ELSE CharAt(l, 1) \o LetterPrefix(SubSeq(l, 2, Len(l)))

\* C15: for every action item of the heuristic extractor the owner is the run
\* of letters at the very start of the trimmed line when that run begins with
\* an upper-case letter, whatever its length (a single letter too), and "TBD"
\* otherwise; the owner is never empty, the task is the whole trimmed line and
\* due is the empty string.
C15_OwnerLeadingRun ==
    FallbackHandled =>
        \A i \in 1..Len(resp.json.actions.a) :
            LET a == resp.json.actions.a[i]
                l == Get(a, "task").s
                run == LetterPrefix(l)
            IN  /\ Get(a, "owner").s =
                        (IF run # "" /\ IsUpper(CharAt(run, 1)) THEN run ELSE "TBD")
                /\ Get(a, "owner").s # ""
                /\ l = Trim(l)
                /\ \E k \in 1..Len(NoteLines(Get(req.json, "notes").s)) :
                        NoteLines(Get(req.json, "notes").s)[k] = l
                /\ Get(a, "due") = JStr("")

\* what the code holds to: the run is the owner only when it has at least two
\* letters
C15_OwnerRunOfTwo ==
    FallbackHandled =>
        \A i \in 1..Len(resp.json.actions.a) :
            LET a == resp.json.actions.a[i]
                l == Get(a, "task").s
                run == LetterPrefix(l)
            IN  /\ Get(a, "owner").s =
                        (IF Len(run) >= 2 /\ IsUpper(CharAt(run, 1))
                         THEN run ELSE "TBD")
                /\ Get(a, "owner").s # ""
                /\ l = Trim(l)
                /\ Get(a, "due") = JStr("")

\* the request was served by the fallback path and its body shows a summary
SummaryShown ==
    /\ FallbackHandled
    /\ Len(AfterHeader(resp.json.body)) >= 2
    /\ AfterHeader(resp.json.body)[1] = "Summary"

\* the text under the Summary heading
SummaryText == AfterHeader(resp.json.body)[2]

\* the statement of C16 as it stands: the summary of a casual request opens
\* with a casual phrase, the summary of any other request has no such opener
C16_Original ==
    SummaryShown =>
        (StartsWith(SummaryText, "Hey folks") <=> Get(req.json, "tone").s = "casual")

\* C16: in the heuristic extractor the summary has no prefix for any tone,
\* casual included: it is the first 8 lines of the trimmed, non-empty lines
\* of the notes joined by single spaces.
C16_NoPrefixForAnyTone ==
    /\ FallbackHandled =>
            HeuristicExtract(Get(req.json, "notes").s).summary =
                JStr(Join(Take(NoteLines(Get(req.json, "notes").s), 8), " "))
    /\ SummaryShown =>
            /\ SummaryText = Join(Take(NoteLines(Get(req.json, "notes").s), 8), " ")
            /\ ~StartsWith(SummaryText, "Hey folks")

C16_Witness ==
    /\ SummaryShown
    /\ Get(req.json, "tone").s = "casual"
    /\ Len(NoteLines(Get(req.json, "notes").s)) > 8
    /\ StartsWith(SummaryText, "Move launch today ship By friday")

\* the body between the intro and the sign-off of a request p: the Attendees
\* line and the sections
Middle(body, p, e) ==
    LET head == ExpectedGreeting(p.audience) \o "\n" \o introLine(p, e) \o "\n"
        tail == "\n" \o ExpectedSignoff(p.tone) \o "\n{your name}"
    IN  SubSeq(body, Len(head) + 1, Len(body) - Len(tail))

\* the body is the greeting, the intro of the tone, a middle, the sign-off of
\* the tone and the placeholder name
Framed(body, p, e) ==
    /\ StartsWith(body, ExpectedGreeting(p.audience) \o "\n" \o introLine(p, e) \o "\n")
    /\ EndsWith(body, "\n" \o ExpectedSignoff(p.tone) \o "\n{your name}")

\* C19: two valid requests on the heuristic path that differ only in tone get
\* the same subject, the same actions list and the same body but for the
\* intro and the sign-off: the greeting, the Attendees line, the summary text
\* and the Decisions, Action Items and Open Questions sections are identical.
C19_ToneOnlyPhrasing ==
    FallbackHandled =>
        LET p == ParsedData(req.json)
        IN  \A t \in Tones :
                LET q == [p EXCEPT !.tone = t]
                    other == FallbackResponse(q, env)
                IN  /\ other.status = resp.status
                    /\ other.json.subject = resp.json.subject
                    /\ other.json.actions = resp.json.actions
                    /\ Framed(resp.json.body, p, env)
                    /\ Framed(other.json.body, q, env)
                    /\ Middle(other.json.body, q, env) = Middle(resp.json.body, p, env)
                    /\ Lines(other.json.body)[1] = Lines(resp.json.body)[1]

C19_Witness ==
    /\ ThreeLinesHandled
    /\ Get(req.json, "tone").s = "casual"
    /\ Get(req.json, "type").s = "follow-up"
    /\ LET other == FallbackResponse([ParsedData(req.json) EXCEPT !.tone = "formal"], env)
       IN  /\ other.json.body # resp.json.body
           /\ HasLine(other.json.body, "Best regards,")
           /\ HasLine(resp.json.body, "Cheers,")
           /\ HasLine(other.json.body, "- - Need legal review?")
           /\ HasLine(resp.json.body, "- - Need legal review?")

\* the strings of a sequence of JStr values
TextsOf(xs) == [i \in 1..Len(xs) |-> xs[i].s]

\* the bullets of a list of texts
Bullets(xs) == [i \in 1..Len(xs) |-> "- " \o xs[i]]

\* xs is the lines that satisfy a predicate, here given as the sequence sel
\* of all of them in order, cut to the first 50; every entry is a trimmed,
\* non-empty line of the notes
IsCappedSelection(xs, sel, lines) ==
    /\ Len(xs) <= 50
    /\ Len(xs) = Min(50, Len(sel))
    /\ \A i \in 1..Len(xs) :
            /\ xs[i] = sel[i]
            /\ xs[i] # ""
            /\ xs[i] = Trim(xs[i])
            /\ \E k \in 1..Len(lines) : lines[k] = xs[i]

\* C22: in the heuristic extractor actions, decisions and questions are each
\* the lines of the trimmed non-empty note lines that satisfy the category's
\* predicate, in the order of the notes, cut to the first 50; no entry is an
\* empty or untrimmed line, and a line that satisfies several predicates is in
\* every matching list.
C22_IndependentCappedLists ==
    FallbackHandled =>
        LET notes == Get(req.json, "notes").s
            lines == NoteLines(notes)
            ex == HeuristicExtract(notes)
            shown == Get(req.json, "type").s # "action-only"
        IN  /\ IsCappedSelection(TasksOf(ex.actions),
                                 SelectSeq(lines, IsActionLine), lines)
            /\ IsCappedSelection(TextsOf(ex.decisions),
                                 SelectSeq(lines, IsDecisionLine), lines)
            /\ IsCappedSelection(TextsOf(ex.questions),
                                 SelectSeq(lines, IsQuestionLine), lines)
            /\ resp.json.actions = JArr(ex.actions)
            /\ shown => /\ SectionLines(resp.json.body, "Decisions")
                            = Bullets(TextsOf(ex.decisions))
                        /\ SectionLines(resp.json.body, "Open Questions")
                            = Bullets(TextsOf(ex.questions))
            /\ \A k \in 1..Min(50, Len(lines)) :
                    (/\ IsActionLine(lines[k]) /\ IsDecisionLine(lines[k])
                     /\ IsQuestionLine(lines[k])
                     /\ Len(SelectSeq(lines, IsActionLine)) <= 50
                     /\ Len(SelectSeq(lines, IsDecisionLine)) <= 50
                     /\ Len(SelectSeq(lines, IsQuestionLine)) <= 50) =>
                        /\ \E i \in 1..Len(ex.actions) :
                                Get(ex.actions[i], "task").s = lines[k]
                        /\ \E i \in 1..Len(ex.decisions) : ex.decisions[i].s = lines[k]
                        /\ \E i \in 1..Len(ex.questions) : ex.questions[i].s = lines[k]

C22_Witness ==
    /\ FallbackHandled
    /\ Len(NoteLines(Get(req.json, "notes").s)) = 51
    /\ Get(req.json, "type").s = "summary"
    /\ Len(resp.json.actions.a) = 50
    /\ Len(SectionLines(resp.json.body, "Decisions")) = 50
    /\ SectionLines(resp.json.body, "Open Questions")[50] = "- keep to 50?"

\* C23: in the heuristic extractor the summary is the first 8 lines of the
\* trimmed non-empty lines (all of them when there are fewer), joined by
\* single spaces, taken from the whole list and not from the action, decision
\* or question lists; it is the empty string iff there is no non-empty line.
C23_SummaryOfFirstLines ==
    FallbackHandled =>
        LET notes == Get(req.json, "notes").s
            lines == NoteLines(notes)
            summary == HeuristicExtract(notes).summary.s
        IN  /\ Len(lines) <= 8 => summary = Join(lines, " ")
            /\ Len(lines) > 8 => summary = Join(SubSeq(lines, 1, 8), " ")
            /\ summary = "" <=> OnlyWhiteSpace(notes)
            /\ summary = "" <=> Len(lines) = 0
            /\ (Get(req.json, "type").s # "action-only" /\ summary # "") =>
                    SectionLines(resp.json.body, "Summary") = <<summary>>

C23_Witness ==
    /\ FallbackHandled
    /\ Get(req.json, "type").s = "follow-up"
    /\ Get(req.json, "notes").s = "Attendees: Ann, Bob\r\nMove launch today"
    /\ Len(resp.json.actions.a) = 0
    /\ SectionLines(resp.json.body, "Summary")
            = <<"Attendees: Ann, Bob Move launch today">>

\* the bullets the body shows for the items of a returned actions value
RenderedActions(actions) ==
    [i \in 1..Len(actions) |-> actionLine(actions[i])]

\* C27: in every success response, on the heuristic and on the remote path,
\* the actions field is a sequence and it is the sequence of the action items
\* the body shows under Action Items, same items in the same order, also when
\* the remote extractor returned a value for actions that is not an array.
C27_ActionsMatchBody ==
    (pc = "done" /\ resp.status = 200) =>
        /\ resp.json.actions.k = "array"
        /\ SectionLines(resp.json.body, "Action Items")
                = RenderedActions(resp.json.actions.a)

\* what the code holds to: the same on the heuristic path, and on the remote
\* path when the remote actions are an array or are absent
C27_AgreeWhenArray ==
    (/\ pc = "done"
     /\ resp.status = 200
     /\ remote.state = "resolved" =>
            Get(ParseData(RawContent(remote.reply)), "actions").k
                \in {"array", "undefined", "null"}) =>
        /\ resp.json.actions.k = "array"
        /\ SectionLines(resp.json.body, "Action Items")
                = RenderedActions(resp.json.actions.a)

(***************************************************************************)
(* unnamed/part_001: the form component EmailGenerator.  Its state is the   *)
(* values of the form (of which tone and notes change here; the other       *)
(* fields keep their defaults), loading, result and error.  Beside them     *)
(* the model keeps the requests to /api/generate still in flight, in the    *)
(* order of issue and each with the response the route has given it, how    *)
(* many were issued, the one issued last, and whether every response so far *)
(* was a success.                                                           *)
(***************************************************************************)
FormInitial ==
    [tone |-> "concise", notes |-> "", loading |-> FALSE, result |-> JNull,
     error |-> JNull, inflight |-> <<>>, issued |-> 0,
     last |-> [tone |-> "concise", notes |-> ""], clean |-> TRUE]

\* notes the user types: too short for the route, long enough only with the
\* white space around them, long enough
NotesTyped == {"too short", "  call Bob  ", "Anna to send the deck by Friday"}

\* the Rewrite buttons pressed
RewriteTones == {"concise", "formal"}

\* the payload both handlers build from the values of the form
FormPayload(tone, notes) ==
    JObj([title |-> JStr(""), date |-> JStr(""), participants |-> JStr(""),
          audience |-> JStr("internal"), tone |-> JStr(tone),
          type |-> JStr("follow-up"), length |-> JStr("medium"),
          notes |-> JStr(notes)])

\* the responses of POST /api/generate to the payloads the form can build:
\* 400 when the payload fails bodySchema, else the email or 500
RouteReplies ==
    [tone \in RewriteTones \cup {FormInitial.tone},
     notes \in NotesTyped \cup {FormInitial.notes} |->
        LET json == FormPayload(tone, notes)
        IN  IF bodySchema(json)
            THEN {FallbackResponse(ParsedData(json), DefaultEnv), GenerationFailed}
            ELSE {InvalidInput}]

ServerReplies(r) == RouteReplies[r.tone, r.notes]

\* the success response of the route to a request
GeneratedFor(r) == CHOOSE reply \in ServerReplies(r) : reply.status = 200

\* res.text() of an error response
ResText(reply) == "{\"error\":\"" \o reply.json.error \o "\"}"

\* messages of the error a failed fetch throws
NetworkMessages == {"Failed to fetch", ""}

\* a request leaves with the notes of the form and the given tone
Issue(f, origin, tone) ==
    [f EXCEPT !.loading = TRUE,
              !.inflight = Append(@, [origin |-> origin, tone |-> tone,
                                      notes |-> f.notes, reply |-> NoResp]),
              !.issued = @ + 1,
              !.last = [tone |-> tone, notes |-> f.notes]]

Pending(origin) ==
    {i \in 1..Len(form.inflight) : form.inflight[i].origin = origin}

\* the requests of a handler whose response has come
Answered(origin) == {i \in Pending(origin) : form.inflight[i].reply # NoResp}

\* the request at i of those in flight has completed
Settle(f, i, ok) ==
    [f EXCEPT !.loading = FALSE,
              !.inflight = SubSeq(@, 1, i - 1) \o SubSeq(@, i + 1, Len(@)),
              !.clean = @ /\ ok]

\* onGenerate up to its await: the notes check, then loading, result and
\* the request
onGenerate(f) ==
    IF Len(Trim(f.notes)) < 10
    THEN [f EXCEPT !.error = JStr("Please add a bit more detail to your notes.")]
    ELSE Issue([f EXCEPT !.error = JNull, !.result = JNull], "generate", f.tone)

CanIssue == form.issued < MaxRequests

\* set("notes", v) from the notes field
EditNotes ==
    /\ \E n \in NotesTyped :
        /\ n # form.notes
        /\ form' = [form EXCEPT !.notes = n]
    /\ UNCHANGED <<env, call, ret, hasKey, pc, req, remote, resp, reached>>

\* the Clear button
Clear ==
    /\ form.result # JNull \/ form.notes # ""
    /\ form' = [form EXCEPT !.result = JNull, !.notes = ""]
    /\ UNCHANGED <<env, call, ret, hasKey, pc, req, remote, resp, reached>>

\* the Generate button submits the form; it is disabled while loading
ClickGenerate ==
    /\ ~form.loading
    /\ Len(Trim(form.notes)) < 10 \/ CanIssue
    /\ form' = onGenerate(form)
    /\ UNCHANGED <<env, call, ret, hasKey, pc, req, remote, resp, reached>>

\* onKey: Ctrl/Cmd+Enter dispatches submit on the form, loading or not
PressShortcut ==
    /\ Len(Trim(form.notes)) < 10 \/ CanIssue
    /\ form' = onGenerate(form)
    /\ UNCHANGED <<env, call, ret, hasKey, pc, req, remote, resp, reached>>

\* a "Rewrite: <tone>" button, up to its await
ClickRewrite ==
    /\ CanIssue
    /\ \E t \in RewriteTones :
        form' = Issue(form, "rewrite", t)
    /\ UNCHANGED <<env, call, ret, hasKey, pc, req, remote, resp, reached>>

\* the route responds to a request in flight
RouteAnswers ==
    /\ \E i \in 1..Len(form.inflight) :
        /\ form.inflight[i].reply = NoResp
        /\ \E reply \in ServerReplies(form.inflight[i]) :
            form' = [form EXCEPT !.inflight[i].reply = reply]
    /\ UNCHANGED <<env, call, ret, hasKey, pc, req, remote, resp, reached>>

\* onGenerate after its await, res.ok
GenerateResolves ==
    /\ \E i \in Answered("generate") :
        /\ form.inflight[i].reply.status = 200
        /\ form' = Settle([form EXCEPT !.result = form.inflight[i].reply.json],
                          i, TRUE)
    /\ UNCHANGED <<env, call, ret, hasKey, pc, req, remote, resp, reached>>

\* onGenerate after its await, an error status: throws the response text
GenerateRejected ==
    /\ \E i \in Answered("generate") :
        /\ form.inflight[i].reply.status # 200
        /\ form' = Settle([form EXCEPT !.error =
                                JStr(ResText(form.inflight[i].reply))],
                          i, FALSE)
    /\ UNCHANGED <<env, call, ret, hasKey, pc, req, remote, resp, reached>>

\* onGenerate after its await, fetch rejected
GenerateThrows ==
    /\ \E i \in Pending("generate") :
        \E m \in NetworkMessages :
            form' = Settle([form EXCEPT !.error =
                                JStr(IF m = "" THEN "Something went wrong." ELSE m)],
                           i, FALSE)
    /\ UNCHANGED <<env, call, ret, hasKey, pc, req, remote, resp, reached>>

\* a Rewrite handler after its await: whatever JSON the response holds
\* becomes the result and the button's tone the tone of the form
RewriteResolves ==
    /\ \E i \in Answered("rewrite") :
        form' = Settle([form EXCEPT !.result = form.inflight[i].reply.json,
                                    !.tone = form.inflight[i].tone],
                       i, form.inflight[i].reply.status = 200)
    /\ UNCHANGED <<env, call, ret, hasKey, pc, req, remote, resp, reached>>

\* a Rewrite handler after its await, fetch rejected: only the finally runs
RewriteThrows ==
    /\ \E i \in Pending("rewrite") : form' = Settle(form, i, FALSE)
    /\ UNCHANGED <<env, call, ret, hasKey, pc, req, remote, resp, reached>>

InitForm ==
    /\ form = FormInitial
    /\ env = DefaultEnv
    /\ call = NoCall
    /\ ret = [done |-> FALSE]
    /\ RouteIdle

NextForm ==
    \/ EditNotes
    \/ Clear
    \/ ClickGenerate
    \/ PressShortcut
    \/ ClickRewrite
    \/ RouteAnswers
    \/ GenerateResolves
    \/ GenerateRejected
    \/ GenerateThrows
    \/ RewriteResolves
    \/ RewriteThrows

SpecForm == InitForm /\ [][NextForm]_vars

(***************************************************************************)
(* Properties of the form component (specification SpecForm).              *)
(***************************************************************************)
InFlight == 1..Len(form.inflight)

\* C28: across any interleaving of Generate submissions (button or
\* shortcut), Rewrite clicks and their responses, loading is true whenever
\* at least one request is still in flight, and false once every issued
\* request has completed, whatever its outcome.
C28_LoadingTracksRequests ==
    /\ InFlight # {} => form.loading
    /\ InFlight = {} => ~form.loading

\* what the code holds to: loading is false once nothing is in flight
C28_IdleWhenAllCompleted == InFlight = {} => ~form.loading

\* a payload of a successful generate response
IsEmail(v) == {"subject", "body"} \subseteq DOMAIN v

\* C29: whenever result is not null it is the payload of a successful
\* generate response, with subject and body; a response with an error status
\* never becomes the result, for Generate and for Rewrite requests alike;
\* and a request is sent only when the notes have at least 10 characters
\* after trimming.
C29_OnlySuccessShown ==
    /\ form.result # JNull => IsEmail(form.result)
    /\ form.result \notin {InvalidInput.json, GenerationFailed.json}
    /\ \A i \in InFlight : Len(Trim(form.inflight[i].notes)) >= 10

\* what the code holds to, for the requests Generate starts
C29_GenerateChecksNotes ==
    \A i \in Pending("generate") : Len(Trim(form.inflight[i].notes)) >= 10

\* every request issued has been answered, each with a success response
AllSucceeded == form.issued >= 1 /\ InFlight = {} /\ form.clean

\* the success payload of the request issued last
LastGenerated == GeneratedFor(form.last).json

\* C30: when the requests issued have all completed, in whatever order their
\* responses arrived, the result shown is the response of the request issued
\* last, and the tone selected in the form is the tone that result was
\* generated with.
C30_LatestRequestShown ==
    (AllSucceeded /\ form.result # JNull) =>
        /\ form.result = LastGenerated
        /\ form.tone = form.last.tone

\* what the code holds to: a single request leaves its response and its
\* tone behind
C30_SingleRequestAgrees ==
    (AllSucceeded /\ form.issued = 1 /\ form.result # JNull) =>
        /\ form.result = LastGenerated
        /\ form.tone = form.last.tone

====
